---- MODULE Spec2Model ----
(***************************************************************************)
(* Model of the delegate action (SDK/session variant of src/index.js):     *)
(* input validation, the assistant runner, the git operations, the pull    *)
(* request manager and the run() orchestrator.  Every external call (fs,   *)
(* assistant client, git, API client) is one step whose outcome is chosen  *)
(* nondeterministically among the outcomes the collaborator can produce.   *)
(***************************************************************************)
EXTENDS Integers, Sequences, FiniteSets, TLC

\* ------------------------------------------------------------------ bounds
\* longest explicit character part of a filename that is enumerated
MaxNameChars == 3

\* number of runs of the action that are looked at together
MaxRuns == 2

\* longest text, in pieces, handed to detectPromptInjection directly
MaxTextTokens == 3

\* ------------------------------------------------------- program constants
MAX_FILE_SIZE == 1048576
MAX_NAME_LENGTH == 255
MAX_INSTRUCTION_LENGTH == 500
SEND_TIMEOUT_MS == 300000

\* --------------------------------------------------------------- filenames
\* A filename is the character sequence chars followed by pad copies of the
\* ordinary character "a"; the padding makes names around the 255 limit
\* representable.  "/" is the path separator (also an illegal filename
\* character), "." the dot, "a" any ordinary character.
NameAlphabet == {"a", ".", "/"}

PadChoices == {0, MAX_NAME_LENGTH - 2}

RECURSIVE SeqsUpTo(_, _)
SeqsUpTo(S, n) ==
  IF n = 0 THEN {<<>>}
  ELSE LET shorter == SeqsUpTo(S, n - 1)
       IN shorter \cup {Append(s, c) : s \in {t \in shorter : Len(t) = n - 1}, c \in S}

Filenames == {[chars |-> s, pad |-> p] : s \in SeqsUpTo(NameAlphabet, MaxNameChars), p \in PadChoices}

NameLength(name) == Len(name.chars) + name.pad

\* the character at position i (1-based) of the whole name
CharAt(name, i) == IF i <= Len(name.chars) THEN name.chars[i] ELSE "a"

\* String.prototype.includes('..')
IncludesDotDot(name) ==
  \E i \in 1..(Len(name.chars) - 1) : name.chars[i] = "." /\ name.chars[i + 1] = "."

\* path.isAbsolute on the POSIX runner: the name starts with the separator
IsAbsolute(name) == NameLength(name) >= 1 /\ CharAt(name, 1) = "/"

\* validator.isLength(str, {min, max}) for names without surrogate pairs
IsLengthBelowMax(name, min, max) == NameLength(name) >= min /\ NameLength(name) < max

IsLength(name, min, max) == NameLength(name) >= min /\ NameLength(name) <= max

\* number of trailing "." characters of a sequence
RECURSIVE TrailingDots(_)
TrailingDots(s) ==
  IF Len(s) = 0 \/ s[Len(s)] # "." THEN 0
  ELSE 1 + TrailingDots(SubSeq(s, 1, Len(s) - 1))

\* sanitize-filename with { replacement: '_' }: every illegal character
\* (here "/") becomes "_"; a name made of dots only becomes "_"; a trailing
\* run of dots becomes one "_".  Padding characters are ordinary and stay.
SanitizeFilename(name) ==
  LET s == name.chars
      step1 == [i \in 1..Len(s) |-> IF s[i] = "/" THEN "_" ELSE s[i]]
      td == IF name.pad = 0 THEN TrailingDots(step1) ELSE 0
      step2 == IF td = 0 THEN step1
               ELSE Append(SubSeq(step1, 1, Len(step1) - td), "_")
  IN [chars |-> step2, pad |-> name.pad]

ErrLength == "Filename must be between 1 and 255 characters"
ErrAbsolute == "Absolute paths are not allowed"
ErrTraversal == "Path traversal detected"
ErrNotFound == "File not found"
ErrTooLarge == "exceeds maximum size"
ErrNotAFile == "is not a file"
ErrRead == "read failed"

\* the variant that sanitizes first and checks the sanitized name
ValidateFilenameSanitizeFirst(filename) ==
  LET sanitized == SanitizeFilename(filename)
  IN IF NameLength(filename) = 0 \/ ~IsLength(filename, 1, MAX_NAME_LENGTH)
       THEN [ok |-> FALSE, err |-> ErrLength, value |-> filename, sanitizedLogged |-> FALSE]
     ELSE IF IsAbsolute(sanitized)
       THEN [ok |-> FALSE, err |-> ErrAbsolute, value |-> filename, sanitizedLogged |-> FALSE]
     ELSE IF IncludesDotDot(sanitized)
       THEN [ok |-> FALSE, err |-> ErrTraversal, value |-> filename, sanitizedLogged |-> FALSE]
     ELSE [ok |-> TRUE, err |-> "", value |-> sanitized,
           sanitizedLogged |-> (sanitized # filename)]

\* validateFilename: length check, then the absolute-path and traversal
\* checks on the raw input, then sanitization
ValidateFilename(filename) ==
  IF NameLength(filename) = 0 \/ ~IsLength(filename, 1, MAX_NAME_LENGTH)
    THEN [ok |-> FALSE, err |-> ErrLength, value |-> filename, sanitizedLogged |-> FALSE]
  ELSE IF IsAbsolute(filename)
    THEN [ok |-> FALSE, err |-> ErrAbsolute, value |-> filename, sanitizedLogged |-> FALSE]
  ELSE IF IncludesDotDot(filename)
    THEN [ok |-> FALSE, err |-> ErrTraversal, value |-> filename, sanitizedLogged |-> FALSE]
  ELSE LET sanitized == SanitizeFilename(filename)
       IN [ok |-> TRUE, err |-> "", value |-> sanitized,
           sanitizedLogged |-> (sanitized # filename)]

\* ------------------------------------------------------------------- texts
\* A text is described by what detectPromptInjection looks at: its length,
\* the number of characters among < > { } [ ] and the index (1..12) of the
\* first PROMPT_INJECTION_PATTERNS entry it matches (0: none); id names the
\* text itself.
DefaultInstructions == [id |-> "default", len |-> 47, susp |-> 0, pat |-> 0]

ReviewInstructions == [id |-> "review", len |-> 133, susp |-> 0, pat |-> 0]

\* contents an instruction file can have: empty, or 20 characters of which
\* none, exactly 10% or more than 10% are counted characters; a bracket or
\* tag pattern (8..12) carries at least two of the counted characters; or
\* as many plain characters as validateFile lets through
FileTexts ==
  {[id |-> "file", len |-> 0, susp |-> 0, pat |-> 0]} \cup
  {[id |-> "file", len |-> MAX_FILE_SIZE, susp |-> 0, pat |-> 0]} \cup
  {t \in {[id |-> "file", len |-> 20, susp |-> s, pat |-> p] : s \in {0, 2, 3}, p \in {0, 1, 8}} :
     t.pat = 8 => t.susp >= 2}

ReasonEmpty == "Invalid input: text must be a non-empty string"
ReasonPattern == "Instruction contains patterns that could manipulate AI behavior"
ReasonDensity == "Excessive use of special characters detected"

\* the filter with a density test that already rejects exactly 10%
DetectPromptInjectionDensityInclusive(text) ==
  IF text.len = 0 \/ text.id = "nonstring" THEN [isValid |-> FALSE, reason |-> ReasonEmpty]
  ELSE IF text.pat # 0 THEN [isValid |-> FALSE, reason |-> ReasonPattern]
  ELSE IF text.susp * 10 >= text.len THEN [isValid |-> FALSE, reason |-> ReasonDensity]
  ELSE [isValid |-> TRUE, reason |-> ""]

\* detectPromptInjection: a non-empty string, no pattern, density of the
\* counted characters not above text.length * 0.1
DetectPromptInjection(text) ==
  IF text.len = 0 \/ text.id = "nonstring" THEN [isValid |-> FALSE, reason |-> ReasonEmpty]
  ELSE IF text.pat # 0 THEN [isValid |-> FALSE, reason |-> ReasonPattern]
  ELSE IF text.susp * 10 > text.len THEN [isValid |-> FALSE, reason |-> ReasonDensity]
  ELSE [isValid |-> TRUE, reason |-> ""]

\* Texts for direct calls of detectPromptInjection are sequences of pieces:
\* plain characters, one counted character, and phrases that
\* PROMPT_INJECTION_PATTERNS entries 1 and 8 match, in both cases of letters.
TextTokens == {"x", "xxxxxxxxx", "<",
               "ignore previous instructions", "IGNORE PREVIOUS INSTRUCTIONS",
               "[system]", "[SYSTEM]"}

\* text.length of a piece
TokenLength(tok) ==
  CASE tok = "x" -> 1
    [] tok = "xxxxxxxxx" -> 9
    [] tok = "<" -> 1
    [] tok \in {"ignore previous instructions", "IGNORE PREVIOUS INSTRUCTIONS"} -> 28
    [] tok \in {"[system]", "[SYSTEM]"} -> 8

\* the matches of /[<>{}[\]]/g in a piece
TokenSuspicious(tok) ==
  CASE tok = "<" -> 1
    [] tok \in {"[system]", "[SYSTEM]"} -> 2
    [] OTHER -> 0

\* the i flag of the patterns: letters compare in lower case
Lower(tok) ==
  CASE tok = "IGNORE PREVIOUS INSTRUCTIONS" -> "ignore previous instructions"
    [] tok = "[SYSTEM]" -> "[system]"
    [] OTHER -> tok

\* PROMPT_INJECTION_PATTERNS, in order: for each pattern one phrase it
\* matches, in lower case
PatternPhrases ==
  <<"ignore previous instructions", "disregard previous instructions",
    "forget previous instructions", "new instructions:", "system prompt:",
    "you are now a", "from now on you are", "[system]", "[admin]", "[override]",
    "<system>", "<admin>">>

\* pattern.test(text): the patterns are not anchored, a match anywhere counts
PatternMatches(k, toks) == \E i \in DOMAIN toks : Lower(toks[i]) = PatternPhrases[k]

\* the loop over the patterns stops at the first one that matches (0: none)
FirstPattern(toks) ==
  IF \E k \in DOMAIN PatternPhrases : PatternMatches(k, toks)
    THEN CHOOSE k \in DOMAIN PatternPhrases :
           /\ PatternMatches(k, toks)
           /\ \A j \in 1..(k - 1) : ~PatternMatches(j, toks)
    ELSE 0

\* text.length
RECURSIVE TextLength(_)
TextLength(toks) ==
  IF toks = <<>> THEN 0 ELSE TokenLength(Head(toks)) + TextLength(Tail(toks))

\* (text.match(/[<>{}[\]]/g) || []).length
RECURSIVE SuspiciousCharCount(_)
SuspiciousCharCount(toks) ==
  IF toks = <<>> THEN 0 ELSE TokenSuspicious(Head(toks)) + SuspiciousCharCount(Tail(toks))

\* the arguments of a direct call: strings, and values that are not strings
\* (null or undefined: no pieces; a number or an object: some)
UnitTexts ==
  {[isString |-> TRUE, toks |-> t] : t \in SeqsUpTo(TextTokens, MaxTextTokens)} \cup
  {[isString |-> FALSE, toks |-> t] : t \in {<<>>, <<"x">>}}

\* what detectPromptInjection looks at in an argument
Features(arg) ==
  [id |-> IF arg.isString THEN "text" ELSE "nonstring",
   len |-> TextLength(arg.toks),
   susp |-> SuspiciousCharCount(arg.toks),
   pat |-> FirstPattern(arg.toks)]

\* ------------------------------------------------------------ file system
\* what existsSync/statSync report for the resolved path.  statSync follows
\* symbolic links: kind, size and content are those of the target; symlink
\* says that the path itself is a link, outside that the target lies outside
\* the working directory.
PlainText == [id |-> "file", len |-> 20, susp |-> 0, pat |-> 0]

FileEntries ==
  {[exists |-> FALSE, kind |-> "none", size |-> 0, content |-> DefaultInstructions,
    symlink |-> FALSE, outside |-> FALSE]} \cup
  {[exists |-> TRUE, kind |-> k, size |-> t.len, content |-> t,
    symlink |-> FALSE, outside |-> FALSE] :
     k \in {"file", "dir"}, t \in FileTexts} \cup
  {[exists |-> TRUE, kind |-> k, size |-> MAX_FILE_SIZE + 1,
    content |-> [id |-> "file", len |-> MAX_FILE_SIZE + 1, susp |-> 0, pat |-> 0],
    symlink |-> FALSE, outside |-> FALSE] :
     k \in {"file", "dir"}} \cup
  {[exists |-> TRUE, kind |-> k, size |-> PlainText.len, content |-> PlainText,
    symlink |-> TRUE, outside |-> TRUE] :
     k \in {"file", "dir"}}

NoEntry == [exists |-> FALSE, kind |-> "none", size |-> 0, content |-> DefaultInstructions,
            symlink |-> FALSE, outside |-> FALSE]

\* stats.isFile()
IsFile(entry) == entry.kind = "file"

\* validateFile with a size limit that already rejects MAX_FILE_SIZE bytes
ValidateFileSizeOffByOne(filename, entry) ==
  LET v == ValidateFilename(filename)
  IN IF ~v.ok THEN [ok |-> FALSE, err |-> v.err, path |-> <<>>]
     ELSE IF ~entry.exists THEN [ok |-> FALSE, err |-> ErrNotFound, path |-> <<>>]
     ELSE IF entry.size >= MAX_FILE_SIZE THEN [ok |-> FALSE, err |-> ErrTooLarge, path |-> <<>>]
     ELSE IF ~IsFile(entry) THEN [ok |-> FALSE, err |-> ErrNotAFile, path |-> <<>>]
     ELSE [ok |-> TRUE, err |-> "", path |-> <<v.value>>]

\* validateFile: validateFilename, then existence, size and type of the
\* entry at path.join(cwd, sanitized)
ValidateFile(filename, entry) ==
  LET v == ValidateFilename(filename)
  IN IF ~v.ok THEN [ok |-> FALSE, err |-> v.err, path |-> <<>>]
     ELSE IF ~entry.exists THEN [ok |-> FALSE, err |-> ErrNotFound, path |-> <<>>]
     ELSE IF entry.size > MAX_FILE_SIZE THEN [ok |-> FALSE, err |-> ErrTooLarge, path |-> <<>>]
     ELSE IF ~IsFile(entry) THEN [ok |-> FALSE, err |-> ErrNotAFile, path |-> <<>>]
     ELSE [ok |-> TRUE, err |-> "", path |-> <<v.value>>]

\* ------------------------------------------------------------------ state
VARIABLES
  pc,                  \* position of run() (and of the function it is in)
  round,               \* 1: first assistant invocation .. first commit; 2: review .. second commit
  token,               \* PRIVATE_TOKEN input
  filename,            \* filename input
  fileEntry,           \* what the file system holds at the resolved path
  instructions,        \* the instructions of the current assistant invocation
  instructionFilePath, \* <<>> (null) or <<path>>
  client,              \* assistant client: none, constructed, started, stopped, forceStopped
  session,             \* assistant session: none, created, listening, destroyed
  pendingError,        \* the error caught by runCopilot's catch block
  headBranch,          \* the branch that is checked out
  commits,             \* commits made: the branch they landed on
  pushes,              \* successful pushes: the branch pushed
  prNumber,            \* what createPullRequest returned: <<>> (null) or <<number>>
  prResponse,          \* the number in the response of pulls.create, <<>> if none
  stages,              \* stages entered, in order
  calls,               \* external calls made (assistant, git, API), in order
  sent,                \* messages handed to session.sendAndWait
  log,                 \* logger entries
  warnings,            \* core.warning messages
  errors,              \* core.error messages
  failedMsgs,          \* core.setFailed messages
  outputs,             \* core.setOutput calls
  raised,              \* errors that left a function towards run()
  now,                 \* the clock, in milliseconds after ClockOrigin
  runNames,            \* for every run of the action: <<>> or <<the branch name it generated>>
  returned             \* <<>> or <<the value a directly called function returned>>

vars == <<pc, round, token, filename, fileEntry, instructions, instructionFilePath,
          client, session, pendingError, headBranch, commits, pushes, prNumber,
          prResponse, stages, calls, sent, log, warnings, errors, failedMsgs, outputs,
          raised, now, runNames, returned>>

inputVars == <<token, filename, fileEntry, instructions, instructionFilePath>>

copilotVars == <<client, session, pendingError>>

gitVars == <<headBranch, commits, pushes>>

prVars == <<prNumber, prResponse>>

reportVars == <<warnings, errors, failedMsgs, outputs>>

\* what lies outside the single run: the clock, the names other runs
\* generated, the result of a direct call of a function
envVars == <<now, runNames, returned>>

Runs == 1..MaxRuns

Tokens == {"", "ghp_secretA"}

PRNumbers == {42, 123}

NewBranch == "copilot/delegate-<timestamp>"

\* the instants (milliseconds after 2026-01-01T00:00:00.000Z) the clock
\* shows: neighbours within a second, across a second, across a minute
ClockValues == {0, 1, 2, 999, 1000, 1001, 59999, 60000}

Digits == <<"0", "1", "2", "3", "4", "5", "6", "7", "8", "9">>

TwoDigits(n) == <<Digits[((n \div 10) % 10) + 1], Digits[(n % 10) + 1]>>

ThreeDigits(n) == <<Digits[((n \div 100) % 10) + 1]>> \o TwoDigits(n)

\* an ISO-8601 timestamp that drops the milliseconds
ToISOStringSeconds(t) ==
  <<"2", "0", "2", "6", "-", "0", "1", "-", "0", "1", "T", "0", "0", ":">>
    \o TwoDigits((t \div 60000) % 60) \o <<":">>
    \o TwoDigits((t \div 1000) % 60) \o <<".">>
    \o ThreeDigits(0) \o <<"Z">>

\* new Date().toISOString(): YYYY-MM-DDTHH:mm:ss.sssZ, character by character
ToISOString(t) ==
  <<"2", "0", "2", "6", "-", "0", "1", "-", "0", "1", "T", "0", "0", ":">>
    \o TwoDigits((t \div 60000) % 60) \o <<":">>
    \o TwoDigits((t \div 1000) % 60) \o <<".">>
    \o ThreeDigits(t % 1000) \o <<"Z">>

\* .replaceAll(/[:.]/g, '-')
ReplaceColonsAndDots(str) == [i \in DOMAIN str |-> IF str[i] \in {":", "."} THEN "-" ELSE str[i]]

\* `copilot/delegate-${timestamp}`
BranchNameAt(t) == <<"copilot/delegate-">> \o ReplaceColonsAndDots(ToISOString(t))

OriginalBranch == "<checked-out ref>"

EmptyName == [chars |-> <<>>, pad |-> 0]

ErrTokenMissing == "Input required and not supplied: PRIVATE_TOKEN"
ErrForceStop == "forceStop failed"

L(level, msg) == [level |-> level, msg |-> msg]

Msg(prefix, detail) == [prefix |-> prefix, detail |-> detail]

\* an external call; cred is the credential handed over with it (<<>>: none)
CallWith(op, res, cred) == [op |-> op, res |-> res, round |-> round, cred |-> cred]

Call(op, res) == CallWith(op, res, <<>>)

\* a catch block that reports the failure twice
GlobalCatchReportsTwice(err, logSoFar) ==
  /\ log' = Append(logSoFar, L("error", "Action failed"))
  /\ failedMsgs' = failedMsgs \o <<Msg("Action failed", err), Msg("Action failed", err)>>
  /\ pc' = "done"

\* the catch block of run(): log and report the failure, end the run
GlobalCatch(err, logSoFar) ==
  /\ log' = Append(logSoFar, L("error", "Action failed"))
  /\ failedMsgs' = Append(failedMsgs, Msg("Action failed", err))
  /\ pc' = "done"

\* a start of run() with another prompt in place of the default
InitRunWithReviewPrompt ==
  /\ pc = "start"
  /\ round = 1
  /\ token = ""
  /\ filename = EmptyName
  /\ fileEntry = NoEntry
  /\ instructions = ReviewInstructions
  /\ instructionFilePath = <<>>
  /\ client = "none"
  /\ session = "none"
  /\ pendingError = ""
  /\ headBranch = OriginalBranch
  /\ commits = <<>>
  /\ pushes = <<>>
  /\ prNumber = <<>>
  /\ prResponse = <<>>
  /\ stages = <<>>
  /\ calls = <<>>
  /\ sent = <<>>
  /\ log = <<>>
  /\ warnings = <<>>
  /\ errors = <<>>
  /\ failedMsgs = <<>>
  /\ outputs = <<>>
  /\ raised = <<>>

InitRun ==
  /\ pc = "start"
  /\ round = 1
  /\ token = ""
  /\ filename = EmptyName
  /\ fileEntry = NoEntry
  /\ instructions = DefaultInstructions
  /\ instructionFilePath = <<>>
  /\ client = "none"
  /\ session = "none"
  /\ pendingError = ""
  /\ headBranch = OriginalBranch
  /\ commits = <<>>
  /\ pushes = <<>>
  /\ prNumber = <<>>
  /\ prResponse = <<>>
  /\ stages = <<>>
  /\ calls = <<>>
  /\ sent = <<>>
  /\ log = <<>>
  /\ warnings = <<>>
  /\ errors = <<>>
  /\ failedMsgs = <<>>
  /\ outputs = <<>>
  /\ raised = <<>>

Init ==
  /\ InitRun
  /\ now = 0
  /\ runNames = [r \in Runs |-> <<>>]
  /\ returned = <<>>

\* ------------------------------------------------------------------ run()
\* the start of run() with the token written to the log
ReadInputsLoggingToken ==
  /\ pc = "start"
  /\ \E tok \in Tokens, fn \in Filenames :
       /\ token' = tok
       /\ filename' = fn
       /\ stages' = Append(stages, "input")
       /\ IF tok = ""
            THEN /\ GlobalCatch(ErrTokenMissing, log)
                 /\ raised' = Append(raised, [fn |-> "getInput", err |-> ErrTokenMissing])
            ELSE /\ log' = log \o <<L("info", "Starting delegate action workflow"),
                                    L("debug", tok)>>
                 /\ pc' = IF NameLength(fn) # 0 THEN "validateFile" ELSE "runCopilot"
                 /\ UNCHANGED <<failedMsgs, raised>>
  /\ UNCHANGED <<round, fileEntry, instructions, instructionFilePath, copilotVars,
                 gitVars, prVars, calls, sent, warnings, errors, outputs>>
  /\ UNCHANGED envVars

\* run(): read the inputs, name the branch, log the start; a missing
\* required token makes getInput throw into the global catch
ReadInputs ==
  /\ pc = "start"
  /\ \E tok \in Tokens, fn \in Filenames :
       /\ token' = tok
       /\ filename' = fn
       /\ stages' = Append(stages, "input")
       /\ IF tok = ""
            THEN /\ GlobalCatch(ErrTokenMissing, log)
                 /\ raised' = Append(raised, [fn |-> "getInput", err |-> ErrTokenMissing])
            ELSE /\ log' = Append(log, L("info", "Starting delegate action workflow"))
                 /\ pc' = IF NameLength(fn) # 0 THEN "validateFile" ELSE "runCopilot"
                 /\ UNCHANGED <<failedMsgs, raised>>
  /\ UNCHANGED <<round, fileEntry, instructions, instructionFilePath, copilotVars,
                 gitVars, prVars, calls, sent, warnings, errors, outputs>>
  /\ UNCHANGED envVars

\* the load step without the return after setFailed
LoadInstructionsFileNoReturn ==
  /\ pc = "validateFile"
  /\ \E entry \in FileEntries :
       LET r == ValidateFile(filename, entry)
       IN /\ fileEntry' = entry
          /\ stages' = Append(stages, "load")
          /\ IF r.ok
               THEN /\ instructionFilePath' = r.path
                    /\ log' = log \o <<L("info", "Validating file"),
                                       L("info", "File validated successfully")>>
                    /\ pc' = "readFile"
                    /\ UNCHANGED failedMsgs
               ELSE /\ log' = log \o <<L("info", "Validating file"),
                                       L("error", "Failed to load instructions file")>>
                    /\ failedMsgs' = Append(failedMsgs,
                                            Msg("Failed to load instructions file", r.err))
                    /\ pc' = "runCopilot"
                    /\ UNCHANGED instructionFilePath
  /\ UNCHANGED <<round, token, filename, instructions, copilotVars, gitVars, prVars,
                 calls, sent, warnings, errors, outputs, raised>>
  /\ UNCHANGED envVars

\* run(): validateFile(filename) inside the inner try; a failure is reported
\* with setFailed and the run returns
LoadInstructionsFile ==
  /\ pc = "validateFile"
  /\ \E entry \in FileEntries :
       LET r == ValidateFile(filename, entry)
       IN /\ fileEntry' = entry
          /\ stages' = Append(stages, "load")
          /\ IF r.ok
               THEN /\ instructionFilePath' = r.path
                    /\ log' = log \o <<L("info", "Validating file"),
                                       L("info", "File validated successfully")>>
                    /\ pc' = "readFile"
                    /\ UNCHANGED failedMsgs
               ELSE /\ log' = log \o <<L("info", "Validating file"),
                                       L("error", "Failed to load instructions file")>>
                    /\ failedMsgs' = Append(failedMsgs,
                                            Msg("Failed to load instructions file", r.err))
                    /\ pc' = "done"
                    /\ UNCHANGED instructionFilePath
  /\ UNCHANGED <<round, token, filename, instructions, copilotVars, gitVars, prVars,
                 calls, sent, warnings, errors, outputs, raised>>
  /\ UNCHANGED envVars

\* a read step that keeps the default prompt when the file is empty
ReadInstructionsFileDefaultsWhenEmpty ==
  /\ pc = "readFile"
  /\ \E res \in {"ok", "raise"} :
       IF res = "ok"
         THEN /\ instructions' = IF fileEntry.content.len = 0 THEN DefaultInstructions
                              ELSE fileEntry.content
              /\ log' = Append(log, L("info", "Loaded instructions from file"))
              /\ pc' = "runCopilot"
              /\ UNCHANGED failedMsgs
         ELSE /\ log' = Append(log, L("error", "Failed to load instructions file"))
              /\ failedMsgs' = Append(failedMsgs,
                                      Msg("Failed to load instructions file", ErrRead))
              /\ pc' = "done"
              /\ UNCHANGED instructions
  /\ UNCHANGED <<round, token, filename, fileEntry, instructionFilePath, copilotVars,
                 gitVars, prVars, stages, calls, sent, warnings, errors, outputs, raised>>
  /\ UNCHANGED envVars

\* run(): fs.readFileSync of the validated path; the content becomes the
\* instructions; a read error is reported like a validation error
ReadInstructionsFile ==
  /\ pc = "readFile"
  /\ \E res \in {"ok", "raise"} :
       IF res = "ok"
         THEN /\ instructions' = fileEntry.content
              /\ log' = Append(log, L("info", "Loaded instructions from file"))
              /\ pc' = "runCopilot"
              /\ UNCHANGED failedMsgs
         ELSE /\ log' = Append(log, L("error", "Failed to load instructions file"))
              /\ failedMsgs' = Append(failedMsgs,
                                      Msg("Failed to load instructions file", ErrRead))
              /\ pc' = "done"
              /\ UNCHANGED instructions
  /\ UNCHANGED <<round, token, filename, fileEntry, instructionFilePath, copilotVars,
                 gitVars, prVars, stages, calls, sent, warnings, errors, outputs, raised>>
  /\ UNCHANGED envVars

\* ------------------------------------------------------------ runCopilot
\* the error runCopilot throws for a rejected text
SecurityError(reason) ==
  CASE reason = ReasonEmpty -> "Security: Invalid input: text must be a non-empty string"
    [] reason = ReasonPattern -> "Security: Instruction contains patterns that could manipulate AI behavior"
    [] OTHER -> "Security: Excessive use of special characters detected"

SecurityErrors == {SecurityError(r) : r \in {ReasonEmpty, ReasonPattern, ReasonDensity}}

\* the error a failing collaborator call raises
ErrOf(op) ==
  CASE op = "getCopilotClient" -> "getCopilotClient failed"
    [] op = "new CopilotClient" -> "CopilotClient constructor failed"
    [] op = "client.start" -> "start failed"
    [] op = "client.createSession" -> "createSession failed"
    [] op = "session.on" -> "session.on failed"
    [] op = "session.sendAndWait" -> "sendAndWait failed"
    [] op = "session.destroy" -> "destroy failed"
    [] op = "client.stop" -> "stop failed"
    [] op = "git checkout" -> "checkout failed"
    [] OTHER -> "git failed"

\* run() that commits right after the first invocation, without the branch
AfterCopilotSkipBranch == "commitAndPush"

\* where run() goes on after runCopilot returned
AfterCopilot == IF round = 1 THEN "createBranch" ELSE "commitAndPush"

\* the catch block of runCopilot up to the forced stop: log, warn
CopilotCatch(err) ==
  /\ pendingError' = err
  /\ log' = Append(log, L("error", "Copilot SDK execution failed"))
  /\ warnings' = Append(warnings, Msg("Copilot SDK execution failed", err))
  /\ pc' = "forceStop"

\* runCopilot entered without the filter
RunCopilotEntryUnfiltered ==
  /\ pc = "runCopilot"
  /\ stages' = Append(stages, IF round = 1 THEN "gen1" ELSE "gen2")
  /\ log' = Append(log, L("info", "Initializing GitHub Copilot SDK"))
  /\ pc' = "getClient"
  /\ UNCHANGED <<failedMsgs, raised>>
  /\ client' = "none"
  /\ session' = "none"
  /\ UNCHANGED <<round, inputVars, pendingError, gitVars, prVars, calls, sent,
                 warnings, errors, outputs>>
  /\ UNCHANGED envVars

\* runCopilot, lines 455-462: the filter; a rejected text is thrown as a
\* Security error, which run() does not catch before its global catch
RunCopilotEntry ==
  /\ pc = "runCopilot"
  /\ stages' = Append(stages, IF round = 1 THEN "gen1" ELSE "gen2")
  /\ LET check == DetectPromptInjection(instructions)
     IN IF ~check.isValid
          THEN /\ GlobalCatch(SecurityError(check.reason),
                              Append(log, L("error", "Prompt injection detected")))
               /\ raised' = Append(raised, [fn |-> "runCopilot",
                                            err |-> SecurityError(check.reason)])
          ELSE /\ log' = Append(log, L("info", "Initializing GitHub Copilot SDK"))
               /\ pc' = "getClient"
               /\ UNCHANGED <<failedMsgs, raised>>
  /\ client' = "none"
  /\ session' = "none"
  /\ UNCHANGED <<round, inputVars, pendingError, gitVars, prVars, calls, sent,
                 warnings, errors, outputs>>
  /\ UNCHANGED envVars

\* runCopilot, line 464: getCopilotClient(), outside the try block
GetCopilotClient ==
  /\ pc = "getClient"
  /\ \E res \in {"ok", "raise"} :
       /\ calls' = Append(calls, Call("getCopilotClient", res))
       /\ IF res = "ok"
            THEN /\ pc' = "construct"
                 /\ UNCHANGED <<log, failedMsgs, raised>>
            ELSE /\ GlobalCatch(ErrOf("getCopilotClient"), log)
                 /\ raised' = Append(raised, [fn |-> "runCopilot",
                                              err |-> ErrOf("getCopilotClient")])
  /\ UNCHANGED <<round, inputVars, copilotVars, gitVars, prVars, stages, sent,
                 warnings, errors, outputs>>
  /\ UNCHANGED envVars

\* runCopilot, lines 466-470: new CopilotClient(...), outside the try block
ConstructClient ==
  /\ pc = "construct"
  /\ \E res \in {"ok", "raise"} :
       /\ calls' = Append(calls, Call("new CopilotClient", res))
       /\ IF res = "ok"
            THEN /\ client' = "constructed"
                 /\ pc' = "clientStart"
                 /\ UNCHANGED <<log, failedMsgs, raised>>
            ELSE /\ GlobalCatch(ErrOf("new CopilotClient"), log)
                 /\ raised' = Append(raised, [fn |-> "runCopilot",
                                              err |-> ErrOf("new CopilotClient")])
                 /\ UNCHANGED client
  /\ UNCHANGED <<round, inputVars, session, pendingError, gitVars, prVars, stages,
                 sent, warnings, errors, outputs>>
  /\ UNCHANGED envVars

\* runCopilot, lines 473-474: client.start()
ClientStart ==
  /\ pc = "clientStart"
  /\ \E res \in {"ok", "raise"} :
       /\ calls' = Append(calls, Call("client.start", res))
       /\ IF res = "ok"
            THEN /\ client' = "started"
                 /\ log' = Append(log, L("info", "Copilot client started successfully"))
                 /\ pc' = "createSession"
                 /\ UNCHANGED <<pendingError, warnings>>
            ELSE /\ CopilotCatch(ErrOf("client.start"))
                 /\ UNCHANGED client
  /\ UNCHANGED <<round, inputVars, session, gitVars, prVars, stages, sent,
                 errors, failedMsgs, outputs, raised>>
  /\ UNCHANGED envVars

\* createSession followed at once by the message, without a listener
CreateSessionSkipsListener ==
  /\ pc = "createSession"
  /\ \E res \in {"ok", "raise"} :
       /\ calls' = Append(calls, Call("client.createSession", res))
       /\ IF res = "ok"
            THEN /\ session' = "created"
                 /\ log' = Append(log, L("info", "Session created"))
                 /\ pc' = "sendAndWait"
                 /\ UNCHANGED <<pendingError, warnings>>
            ELSE /\ CopilotCatch(ErrOf("client.createSession"))
                 /\ UNCHANGED session
  /\ UNCHANGED <<round, inputVars, client, gitVars, prVars, stages, sent,
                 errors, failedMsgs, outputs, raised>>
  /\ UNCHANGED envVars

\* runCopilot, lines 476-494: client.createSession(...)
CreateSession ==
  /\ pc = "createSession"
  /\ \E res \in {"ok", "raise"} :
       /\ calls' = Append(calls, Call("client.createSession", res))
       /\ IF res = "ok"
            THEN /\ session' = "created"
                 /\ log' = Append(log, L("info", "Session created"))
                 /\ pc' = "registerListener"
                 /\ UNCHANGED <<pendingError, warnings>>
            ELSE /\ CopilotCatch(ErrOf("client.createSession"))
                 /\ UNCHANGED session
  /\ UNCHANGED <<round, inputVars, client, gitVars, prVars, stages, sent,
                 errors, failedMsgs, outputs, raised>>
  /\ UNCHANGED envVars

\* runCopilot, lines 496-514: session.on(listener)
RegisterListener ==
  /\ pc = "registerListener"
  /\ \E res \in {"ok", "raise"} :
       /\ calls' = Append(calls, Call("session.on", res))
       /\ IF res = "ok"
            THEN /\ session' = "listening"
                 /\ pc' = "sendAndWait"
                 /\ UNCHANGED <<pendingError, warnings, log>>
            ELSE /\ CopilotCatch(ErrOf("session.on"))
                 /\ UNCHANGED session
  /\ UNCHANGED <<round, inputVars, client, gitVars, prVars, stages, sent,
                 errors, failedMsgs, outputs, raised>>
  /\ UNCHANGED envVars

\* sendAndWait whose failure is followed by the releases of the session
SendAndWaitThenReleases ==
  /\ pc = "sendAndWait"
  /\ \E res \in {"ok", "raise"} :
       /\ calls' = Append(calls, Call("session.sendAndWait", res))
       /\ sent' = Append(sent, [prompt |-> instructions,
                                attachments |-> instructionFilePath,
                                timeout |-> SEND_TIMEOUT_MS,
                                round |-> round])
       /\ IF res = "ok"
            THEN /\ log' = log \o <<L("info", "Sending message to Copilot"),
                                    L("info", "Copilot execution completed successfully")>>
                 /\ pc' = "destroy"
                 /\ UNCHANGED <<pendingError, warnings>>
            ELSE /\ pendingError' = ErrOf("session.sendAndWait")
                 /\ log' = log \o <<L("info", "Sending message to Copilot"),
                                    L("error", "Copilot SDK execution failed")>>
                 /\ warnings' = Append(warnings, Msg("Copilot SDK execution failed",
                                                     ErrOf("session.sendAndWait")))
                 /\ pc' = "destroy"
  /\ UNCHANGED <<round, inputVars, client, session, gitVars, prVars, stages,
                 errors, failedMsgs, outputs, raised>>
  /\ UNCHANGED envVars

\* runCopilot, lines 516-533: build the message (prompt, attachment when an
\* instruction file is given) and session.sendAndWait(message, 300000)
SendAndWait ==
  /\ pc = "sendAndWait"
  /\ \E res \in {"ok", "raise"} :
       /\ calls' = Append(calls, Call("session.sendAndWait", res))
       /\ sent' = Append(sent, [prompt |-> instructions,
                                attachments |-> instructionFilePath,
                                timeout |-> SEND_TIMEOUT_MS,
                                round |-> round])
       /\ IF res = "ok"
            THEN /\ log' = log \o <<L("info", "Sending message to Copilot"),
                                    L("info", "Copilot execution completed successfully")>>
                 /\ pc' = "destroy"
                 /\ UNCHANGED <<pendingError, warnings>>
            ELSE /\ pendingError' = ErrOf("session.sendAndWait")
                 /\ log' = log \o <<L("info", "Sending message to Copilot"),
                                    L("error", "Copilot SDK execution failed")>>
                 /\ warnings' = Append(warnings, Msg("Copilot SDK execution failed",
                                                     ErrOf("session.sendAndWait")))
                 /\ pc' = "forceStop"
  /\ UNCHANGED <<round, inputVars, client, session, gitVars, prVars, stages,
                 errors, failedMsgs, outputs, raised>>
  /\ UNCHANGED envVars

\* runCopilot, line 535: session.destroy()
SessionDestroy ==
  /\ pc = "destroy"
  /\ \E res \in {"ok", "raise"} :
       /\ calls' = Append(calls, Call("session.destroy", res))
       /\ IF res = "ok"
            THEN /\ session' = "destroyed"
                 /\ pc' = "clientStop"
                 /\ UNCHANGED <<pendingError, warnings, log>>
            ELSE /\ CopilotCatch(ErrOf("session.destroy"))
                 /\ UNCHANGED session
  /\ UNCHANGED <<round, inputVars, client, gitVars, prVars, stages, sent,
                 errors, failedMsgs, outputs, raised>>
  /\ UNCHANGED envVars

\* runCopilot, line 536: client.stop(); on success runCopilot returns and
\* run() goes on; the second invocation is entered from commitAndPush
ClientStop ==
  /\ pc = "clientStop"
  /\ \E res \in {"ok", "raise"} :
       /\ calls' = Append(calls, Call("client.stop", res))
       /\ IF res = "ok"
            THEN /\ client' = "stopped"
                 /\ pc' = AfterCopilot
                 /\ UNCHANGED <<pendingError, warnings, log>>
            ELSE /\ CopilotCatch(ErrOf("client.stop"))
                 /\ UNCHANGED client
  /\ UNCHANGED <<round, inputVars, session, gitVars, prVars, stages, sent,
                 errors, failedMsgs, outputs, raised>>
  /\ UNCHANGED envVars

\* the forced stop whose own error replaces the caught one
ForceStopRaisesStopError ==
  /\ pc = "forceStop"
  /\ \E res \in {"ok", "raise"} :
       /\ calls' = Append(calls, Call("client.forceStop", res))
       /\ IF res = "ok"
            THEN /\ client' = "forceStopped"
                 /\ GlobalCatch(pendingError, log)
                 /\ raised' = Append(raised, [fn |-> "runCopilot", err |-> pendingError])
            ELSE /\ GlobalCatch(ErrForceStop,
                                Append(log, L("error", "Failed to stop Copilot client")))
                 /\ raised' = Append(raised, [fn |-> "runCopilot", err |-> ErrForceStop])
                 /\ UNCHANGED client
  /\ UNCHANGED <<round, inputVars, session, pendingError, gitVars, prVars, stages,
                 sent, warnings, errors, outputs>>
  /\ UNCHANGED envVars

\* runCopilot, lines 541-547: client.forceStop(), its own failure only
\* logged, then the caught error is thrown again; run() has no handler for
\* it but the global catch
ForceStop ==
  /\ pc = "forceStop"
  /\ \E res \in {"ok", "raise"} :
       /\ calls' = Append(calls, Call("client.forceStop", res))
       /\ IF res = "ok"
            THEN /\ client' = "forceStopped"
                 /\ GlobalCatch(pendingError, log)
            ELSE /\ GlobalCatch(pendingError,
                                Append(log, L("error", "Failed to stop Copilot client")))
                 /\ UNCHANGED client
       /\ raised' = Append(raised, [fn |-> "runCopilot", err |-> pendingError])
  /\ UNCHANGED <<round, inputVars, session, pendingError, gitVars, prVars, stages,
                 sent, warnings, errors, outputs>>
  /\ UNCHANGED envVars

\* ---------------------------------------------------------- createBranch
\* createBranch that gives up after the failed creation attempt
CreateBranchNoFallback ==
  /\ pc = "createBranch"
  /\ stages' = Append(stages, "branch")
  /\ \E res \in {"ok", "raise"} :
       /\ calls' = Append(calls, Call("git checkout -b", res))
       /\ headBranch' = IF res = "ok" THEN NewBranch ELSE headBranch
       /\ log' = Append(log, L("info", "Creating new branch"))
       /\ pc' = "commitAndPush"
  /\ UNCHANGED <<round, inputVars, copilotVars, commits, pushes, prVars, sent,
                 reportVars, raised>>
  /\ UNCHANGED envVars

\* createBranch, lines 557-563: git checkout -b <branch>; a failure is
\* logged and leads to the fallback
CreateBranch ==
  /\ pc = "createBranch"
  /\ stages' = Append(stages, "branch")
  /\ \E res \in {"ok", "raise"} :
       /\ calls' = Append(calls, Call("git checkout -b", res))
       /\ IF res = "ok"
            THEN /\ headBranch' = NewBranch
                 /\ log' = log \o <<L("info", "Creating new branch"),
                                    L("info", "Branch created successfully")>>
                 /\ pc' = "commitAndPush"
            ELSE /\ log' = log \o <<L("info", "Creating new branch"),
                                    L("warn", "Failed to create branch, trying checkout")>>
                 /\ pc' = "fallbackCheckout"
                 /\ UNCHANGED headBranch
  /\ UNCHANGED <<round, inputVars, copilotVars, commits, pushes, prVars, sent,
                 reportVars, raised>>
  /\ UNCHANGED envVars

\* a fallback checkout whose nonzero exit status is an error
FallbackCheckoutChecksExitCode ==
  /\ pc = "fallbackCheckout"
  /\ \E res \in {"ok", "nonzero", "raise"} :
       /\ calls' = Append(calls, Call("git checkout", res))
       /\ IF res # "ok"
            THEN /\ GlobalCatch(ErrOf("git checkout"), log)
                 /\ raised' = Append(raised, [fn |-> "createBranch",
                                              err |-> ErrOf("git checkout")])
                 /\ UNCHANGED headBranch
            ELSE /\ headBranch' = IF res = "ok" THEN NewBranch ELSE headBranch
                 /\ pc' = "commitAndPush"
                 /\ UNCHANGED <<log, failedMsgs, raised>>
  /\ UNCHANGED <<round, inputVars, copilotVars, commits, pushes, prVars, stages, sent,
                 warnings, errors, outputs>>
  /\ UNCHANGED envVars

\* createBranch, line 564: git checkout <branch> with ignoreReturnCode; the
\* exit code is not looked at, an error of the invocation itself leaves
\* createBranch and reaches the global catch of run()
FallbackCheckout ==
  /\ pc = "fallbackCheckout"
  /\ \E res \in {"ok", "nonzero", "raise"} :
       /\ calls' = Append(calls, Call("git checkout", res))
       /\ IF res = "raise"
            THEN /\ GlobalCatch(ErrOf("git checkout"), log)
                 /\ raised' = Append(raised, [fn |-> "createBranch",
                                              err |-> ErrOf("git checkout")])
                 /\ UNCHANGED headBranch
            ELSE /\ headBranch' = IF res = "ok" THEN NewBranch ELSE headBranch
                 /\ pc' = "commitAndPush"
                 /\ UNCHANGED <<log, failedMsgs, raised>>
  /\ UNCHANGED <<round, inputVars, copilotVars, commits, pushes, prVars, stages, sent,
                 warnings, errors, outputs>>
  /\ UNCHANGED envVars

\* --------------------------------------------------------- commitAndPush
\* run() after commitAndPush returned: the review invocation (review
\* instructions, no attachment) after the first, the pull request after the
\* second
\* a run that ends after the second commitAndPush
LeaveCommitAndPushEndsRun ==
  /\ pc' = IF round = 1 THEN "runCopilot" ELSE "done"
  /\ round' = 2
  /\ instructions' = IF round = 1 THEN ReviewInstructions ELSE instructions
  /\ instructionFilePath' = IF round = 1 THEN <<>> ELSE instructionFilePath

LeaveCommitAndPush ==
  /\ pc' = IF round = 1 THEN "runCopilot" ELSE "createPullRequest"
  /\ round' = 2
  /\ instructions' = IF round = 1 THEN ReviewInstructions ELSE instructions
  /\ instructionFilePath' = IF round = 1 THEN <<>> ELSE instructionFilePath

\* the catch block of commitAndPush: log, warn, return
CommitCatch(logSoFar) ==
  /\ log' = Append(logSoFar, L("error", "Commit/push failed"))
  /\ warnings' = Append(warnings, Msg("Commit/push failed", ErrOf("git")))
  /\ LeaveCommitAndPush

\* a git command of commitAndPush that only has to succeed
GitStep(here, op, next, logBefore) ==
  /\ pc = here
  /\ \E res \in {"ok", "raise"} :
       /\ calls' = Append(calls, Call(op, res))
       /\ IF res = "ok"
            THEN /\ pc' = next
                 /\ log' = logBefore
                 /\ UNCHANGED <<round, instructions, instructionFilePath, warnings>>
            ELSE CommitCatch(logBefore)
  /\ UNCHANGED <<token, filename, fileEntry, copilotVars, gitVars, prVars, sent,
                 errors, failedMsgs, outputs, raised>>
  /\ UNCHANGED envVars

\* commitAndPush, lines 575-578: git config user.name
GitConfigName ==
  /\ stages' = Append(stages, IF round = 1 THEN "commit1" ELSE "commit2")
  /\ GitStep("commitAndPush", "git config user.name", "configEmail",
             Append(log, L("info", "Committing and pushing changes")))

\* commitAndPush, lines 579-583: git config user.email
GitConfigEmail ==
  /\ GitStep("configEmail", "git config user.email", "add", log)
  /\ UNCHANGED stages

\* commitAndPush, line 585: git add .
GitAdd ==
  /\ GitStep("add", "git add", "diffIndex", log)
  /\ UNCHANGED stages

\* the diff check read with the polarity of an ordinary exit status
GitDiffIndexInverted ==
  /\ pc = "diffIndex"
  /\ \E res \in {"ok", "nonzero", "raise"} :
       /\ calls' = Append(calls, Call("git diff-index", res))
       /\ CASE res = "nonzero" ->
                 /\ log' = Append(log, L("info", "No changes to commit"))
                 /\ UNCHANGED warnings
                 /\ LeaveCommitAndPush
            [] res = "ok" ->
                 /\ pc' = "commit"
                 /\ UNCHANGED <<round, instructions, instructionFilePath, log, warnings>>
            [] OTHER -> CommitCatch(log)
  /\ UNCHANGED <<token, filename, fileEntry, copilotVars, gitVars, prVars, stages, sent,
                 errors, failedMsgs, outputs, raised>>
  /\ UNCHANGED envVars

\* commitAndPush, lines 587-599: git diff-index --quiet HEAD with
\* ignoreReturnCode; exit code 0 means no changes, anything else changes
GitDiffIndex ==
  /\ pc = "diffIndex"
  /\ \E res \in {"ok", "nonzero", "raise"} :
       /\ calls' = Append(calls, Call("git diff-index", res))
       /\ CASE res = "ok" ->
                 /\ log' = Append(log, L("info", "No changes to commit"))
                 /\ UNCHANGED warnings
                 /\ LeaveCommitAndPush
            [] res = "nonzero" ->
                 /\ pc' = "commit"
                 /\ UNCHANGED <<round, instructions, instructionFilePath, log, warnings>>
            [] OTHER -> CommitCatch(log)
  /\ UNCHANGED <<token, filename, fileEntry, copilotVars, gitVars, prVars, stages, sent,
                 errors, failedMsgs, outputs, raised>>
  /\ UNCHANGED envVars

\* commitAndPush, line 594: git commit -m <message>
GitCommit ==
  /\ pc = "commit"
  /\ \E res \in {"ok", "raise"} :
       /\ calls' = Append(calls, Call("git commit", res))
       /\ IF res = "ok"
            THEN /\ commits' = Append(commits, [branch |-> headBranch, round |-> round])
                 /\ pc' = "push"
                 /\ UNCHANGED <<round, instructions, instructionFilePath, log, warnings>>
            ELSE /\ CommitCatch(log)
                 /\ UNCHANGED commits
  /\ UNCHANGED <<token, filename, fileEntry, copilotVars, headBranch, pushes, prVars,
                 stages, sent, errors, failedMsgs, outputs, raised>>
  /\ UNCHANGED envVars

\* the push whose failure is not caught
GitPushUncaught ==
  /\ pc = "push"
  /\ \E res \in {"ok", "raise"} :
       /\ calls' = Append(calls, Call("git push", res))
       /\ IF res = "ok"
            THEN /\ pushes' = Append(pushes, [branch |-> NewBranch, round |-> round])
                 /\ log' = Append(log, L("info", "Changes committed and pushed successfully"))
                 /\ LeaveCommitAndPush
                 /\ UNCHANGED <<failedMsgs, raised>>
            ELSE /\ GlobalCatch(ErrOf("git"), log)
                 /\ raised' = Append(raised, [fn |-> "commitAndPush", err |-> ErrOf("git")])
                 /\ UNCHANGED <<round, instructions, instructionFilePath, pushes>>
  /\ UNCHANGED <<token, filename, fileEntry, copilotVars, headBranch, commits, prVars,
                 stages, sent, warnings, errors, outputs>>
  /\ UNCHANGED envVars

\* commitAndPush, lines 595-596: git push -u origin <branch>
GitPush ==
  /\ pc = "push"
  /\ \E res \in {"ok", "raise"} :
       /\ calls' = Append(calls, Call("git push", res))
       /\ IF res = "ok"
            THEN /\ pushes' = Append(pushes, [branch |-> NewBranch, round |-> round])
                 /\ log' = Append(log, L("info", "Changes committed and pushed successfully"))
                 /\ LeaveCommitAndPush
                 /\ UNCHANGED warnings
            ELSE /\ CommitCatch(log)
                 /\ UNCHANGED pushes
  /\ UNCHANGED <<token, filename, fileEntry, copilotVars, headBranch, commits, prVars,
                 stages, sent, errors, failedMsgs, outputs, raised>>
  /\ UNCHANGED envVars

\* ------------------------------------------------------ createPullRequest
\* JavaScript truthiness of what createPullRequest returned
Truthy(opt) == opt # <<>> /\ opt[1] # 0

\* a catch block after which run() goes on to the assignment
PullRequestCatchThenAssign(err) ==
  /\ log' = log \o <<L("info", "Creating pull request"), L("error", "Failed to create PR")>>
  /\ errors' = Append(errors, Msg("Failed to create PR", err))
  /\ prNumber' = <<>>
  /\ pc' = "assignPR"

\* the catch block of createPullRequest: log, core.error, return null; run()
\* then skips assignment and outputs
PullRequestCatch(err) ==
  /\ log' = log \o <<L("info", "Creating pull request"), L("error", "Failed to create PR")>>
  /\ errors' = Append(errors, Msg("Failed to create PR", err))
  /\ prNumber' = <<>>
  /\ pc' = "done"

\* createPullRequest, lines 616-620: github.getOctokit(token)
CreatePullRequest ==
  /\ pc = "createPullRequest"
  /\ stages' = Append(stages, "openpr")
  /\ \E res \in {"ok", "raise"} :
       /\ calls' = Append(calls, CallWith("createPullRequest:getOctokit", res, <<token>>))
       /\ IF res = "ok"
            THEN /\ pc' = "pullsCreate"
                 /\ log' = Append(log, L("info", "Creating pull request"))
                 /\ UNCHANGED <<errors, prNumber>>
            ELSE PullRequestCatch("getOctokit failed")
  /\ UNCHANGED <<round, inputVars, copilotVars, gitVars, prResponse, sent, warnings,
                 failedMsgs, outputs, raised>>
  /\ UNCHANGED envVars

\* createPullRequest that raises when the create call fails
PullsCreateRaises ==
  /\ pc = "pullsCreate"
  /\ \E res \in {"ok", "raise"} :
       /\ calls' = Append(calls, Call("pulls.create", res))
       /\ IF res = "ok"
            THEN /\ \E n \in PRNumbers :
                      /\ prResponse' = <<n>>
                      /\ prNumber' = <<n>>
                      /\ pc' = IF Truthy(<<n>>) THEN "assignPR" ELSE "done"
                 /\ log' = Append(log, L("info", "Pull request created successfully"))
                 /\ UNCHANGED <<failedMsgs, raised>>
            ELSE /\ GlobalCatch("pulls.create failed", log)
                 /\ raised' = Append(raised, [fn |-> "createPullRequest",
                                              err |-> "pulls.create failed"])
                 /\ UNCHANGED <<prNumber, prResponse>>
  /\ UNCHANGED <<round, inputVars, copilotVars, gitVars, stages, sent, warnings, errors,
                 outputs>>
  /\ UNCHANGED envVars

\* createPullRequest, lines 622-637: octokit.rest.pulls.create(...); the
\* number of the response is returned, a failure gives null
PullsCreate ==
  /\ pc = "pullsCreate"
  /\ \E res \in {"ok", "raise"} :
       /\ calls' = Append(calls, Call("pulls.create", res))
       /\ IF res = "ok"
            THEN /\ \E n \in PRNumbers :
                      /\ prResponse' = <<n>>
                      /\ prNumber' = <<n>>
                      /\ pc' = IF Truthy(<<n>>) THEN "assignPR" ELSE "done"
                 /\ log' = Append(log, L("info", "Pull request created successfully"))
                 /\ UNCHANGED errors
            ELSE /\ log' = Append(log, L("error", "Failed to create PR"))
                 /\ errors' = Append(errors, Msg("Failed to create PR", "pulls.create failed"))
                 /\ prNumber' = <<>>
                 /\ pc' = "done"
                 /\ UNCHANGED prResponse
  /\ UNCHANGED <<round, inputVars, copilotVars, gitVars, stages, sent, warnings,
                 failedMsgs, outputs, raised>>
  /\ UNCHANGED envVars

\* ---------------------------------------------------------------- assignPR
\* the end of run() with the pr_number output only
EmitOutputsWithoutBranch(logSoFar) ==
  /\ outputs' = outputs \o <<[name |-> "pr_number", num |-> prNumber[1], str |-> ""]>>
  /\ log' = Append(logSoFar, L("info", "Delegate action completed successfully"))
  /\ stages' = stages \o <<"assign", "output">>
  /\ pc' = "done"

\* run(), lines 744-746: both outputs and the closing log entry
EmitOutputs(logSoFar) ==
  /\ outputs' = outputs \o <<[name |-> "pr_number", num |-> prNumber[1], str |-> ""],
                             [name |-> "branch", num |-> 0, str |-> NewBranch]>>
  /\ log' = Append(logSoFar, L("info", "Delegate action completed successfully"))
  /\ stages' = stages \o <<"assign", "output">>
  /\ pc' = "done"

\* assignPR that waits for another attempt when the API client is missing
AssignPRAwaitsRetry ==
  /\ pc = "assignPR"
  /\ \E res \in {"ok", "raise"} :
       /\ calls' = Append(calls, CallWith("assignPR:getOctokit", res, <<token>>))
       /\ IF res = "ok"
            THEN /\ pc' = "addAssignees"
                 /\ log' = Append(log, L("info", "Assigning PR to actor"))
                 /\ stages' = Append(stages, "assign")
                 /\ UNCHANGED <<warnings, outputs>>
            ELSE /\ warnings' = Append(warnings, Msg("Failed to assign PR", "getOctokit failed"))
                 /\ log' = log \o <<L("info", "Assigning PR to actor"),
                                    L("error", "Failed to assign PR")>>
                 /\ pc' = "awaitRetry"
                 /\ UNCHANGED <<stages, outputs>>
  /\ UNCHANGED <<round, inputVars, copilotVars, gitVars, prVars, sent, errors,
                 failedMsgs, raised>>
  /\ UNCHANGED envVars

\* assignPR, lines 647-651: github.getOctokit(token); a failure is a warning
\* and run() goes on to the outputs
AssignPR ==
  /\ pc = "assignPR"
  /\ \E res \in {"ok", "raise"} :
       /\ calls' = Append(calls, CallWith("assignPR:getOctokit", res, <<token>>))
       /\ IF res = "ok"
            THEN /\ pc' = "addAssignees"
                 /\ log' = Append(log, L("info", "Assigning PR to actor"))
                 /\ stages' = Append(stages, "assign")
                 /\ UNCHANGED <<warnings, outputs>>
            ELSE /\ warnings' = Append(warnings, Msg("Failed to assign PR", "getOctokit failed"))
                 /\ EmitOutputs(log \o <<L("info", "Assigning PR to actor"),
                                         L("error", "Failed to assign PR")>>)
  /\ UNCHANGED <<round, inputVars, copilotVars, gitVars, prVars, sent, errors,
                 failedMsgs, raised>>
  /\ UNCHANGED envVars

\* assignPR without its catch block: a failing addAssignees reaches the
\* catch block of run()
AddAssigneesUncaught ==
  /\ pc = "addAssignees"
  /\ \E res \in {"ok", "raise"} :
       /\ calls' = Append(calls, Call("issues.addAssignees", res))
       /\ IF res = "ok"
            THEN /\ outputs' = outputs \o
                        <<[name |-> "pr_number", num |-> prNumber[1], str |-> ""],
                          [name |-> "branch", num |-> 0, str |-> NewBranch]>>
                 /\ stages' = Append(stages, "output")
                 /\ pc' = "done"
                 /\ log' = log \o <<L("info", "PR assigned successfully"),
                                    L("info", "Delegate action completed successfully")>>
                 /\ UNCHANGED <<failedMsgs, raised>>
            ELSE /\ GlobalCatch("addAssignees failed", log)
                 /\ raised' = Append(raised, [fn |-> "assignPR", err |-> "addAssignees failed"])
                 /\ UNCHANGED <<outputs, stages>>
  /\ UNCHANGED <<round, inputVars, copilotVars, gitVars, prVars, sent, errors, warnings>>
  /\ UNCHANGED envVars

\* assignPR, lines 653-664: issues.addAssignees(...); then the outputs of
\* run()
AddAssignees ==
  /\ pc = "addAssignees"
  /\ \E res \in {"ok", "raise"} :
       /\ calls' = Append(calls, Call("issues.addAssignees", res))
       /\ outputs' = outputs \o <<[name |-> "pr_number", num |-> prNumber[1], str |-> ""],
                                  [name |-> "branch", num |-> 0, str |-> NewBranch]>>
       /\ stages' = Append(stages, "output")
       /\ pc' = "done"
       /\ IF res = "ok"
            THEN /\ log' = log \o <<L("info", "PR assigned successfully"),
                                    L("info", "Delegate action completed successfully")>>
                 /\ UNCHANGED warnings
            ELSE /\ log' = log \o <<L("error", "Failed to assign PR"),
                                    L("info", "Delegate action completed successfully")>>
                 /\ warnings' = Append(warnings,
                                       Msg("Failed to assign PR", "addAssignees failed"))
  /\ UNCHANGED <<round, inputVars, copilotVars, gitVars, prVars, sent, errors,
                 failedMsgs, raised>>
  /\ UNCHANGED envVars

\* ------------------------------------------------------------ specification
Next ==
  \/ ReadInputs
  \/ LoadInstructionsFile
  \/ ReadInstructionsFile
  \/ RunCopilotEntry
  \/ GetCopilotClient
  \/ ConstructClient
  \/ ClientStart
  \/ CreateSession
  \/ RegisterListener
  \/ SendAndWait
  \/ SessionDestroy
  \/ ClientStop
  \/ ForceStop
  \/ CreateBranch
  \/ FallbackCheckout
  \/ GitConfigName
  \/ GitConfigEmail
  \/ GitAdd
  \/ GitDiffIndex
  \/ GitCommit
  \/ GitPush
  \/ CreatePullRequest
  \/ PullsCreate
  \/ AssignPR
  \/ AddAssignees

Spec == Init /\ [][Next]_vars

\* every external call eventually returns or raises, so a step of run()
\* that can be taken is taken
SpecLive == Init /\ [][Next]_vars /\ WF_vars(Next)

\* ---------------------------------------------------------- direct calls
\* the variables of a run
runVars == <<pc, round, inputVars, copilotVars, gitVars, prVars, stages, calls, sent, log,
             reportVars, raised>>

\* a call of an exported function that has not returned yet
PendingCall(fn, arg) == <<[fn |-> fn, arg |-> arg, res |-> <<>>]>>

UnitCalls ==
  {PendingCall("validateFilename", n) : n \in Filenames} \cup
  {PendingCall("detectPromptInjection", t) : t \in UnitTexts}

InitUnit ==
  /\ InitRun
  /\ now = 0
  /\ runNames = [r \in Runs |-> <<>>]
  /\ returned \in UnitCalls

\* validateFilename(arg) called directly, as the unit tests do
UnitValidateFilename ==
  /\ returned[1].fn = "validateFilename"
  /\ returned[1].res = <<>>
  /\ returned' = <<[returned[1] EXCEPT !.res = <<ValidateFilename(returned[1].arg)>>]>>
  /\ UNCHANGED <<runVars, now, runNames>>

\* detectPromptInjection(arg) called directly
UnitDetectPromptInjection ==
  /\ returned[1].fn = "detectPromptInjection"
  /\ returned[1].res = <<>>
  /\ returned' =
       <<[returned[1] EXCEPT !.res = <<DetectPromptInjection(Features(returned[1].arg))>>]>>
  /\ UNCHANGED <<runVars, now, runNames>>

NextUnit ==
  \/ UnitValidateFilename
  \/ UnitDetectPromptInjection

SpecUnit == InitUnit /\ [][NextUnit]_vars

\* ------------------------------------------------------------ several runs
\* time passes
ClockAdvance ==
  /\ \E t \in ClockValues : t > now /\ now' = t
  /\ UNCHANGED <<runVars, runNames, returned>>

\* run() of run r, lines 676-678: the timestamp is taken and the branch name
\* built, once
StartRun(r) ==
  /\ runNames[r] = <<>>
  /\ runNames' = [runNames EXCEPT ![r] = <<[at |-> now, name |-> BranchNameAt(now)]>>]
  /\ UNCHANGED <<runVars, now, returned>>

NextRuns ==
  \/ ClockAdvance
  \/ \E r \in Runs : StartRun(r)

SpecRuns == Init /\ [][NextRuns]_vars

\* ------------------------------------------------------------- properties
Range(s) == {s[i] : i \in DOMAIN s}

IsPrefix(a, b) == Len(a) <= Len(b) /\ a = SubSeq(b, 1, Len(a))

\* the operations of the calls of round r among opset, in call order
OpsOf(r, opset) ==
  LET sel == SelectSeq(calls, LAMBDA c : c.round = r /\ c.op \in opset)
  IN [i \in DOMAIN sel |-> sel[i].op]

\* the calls of round r of operation op
CallsOf(r, op) == SelectSeq(calls, LAMBDA c : c.round = r /\ c.op = op)

AssistantOps == {"getCopilotClient", "new CopilotClient", "client.start",
                 "client.createSession", "session.on", "session.sendAndWait",
                 "session.destroy", "client.stop", "client.forceStop"}

LoaderErrors == {ErrLength, ErrAbsolute, ErrTraversal, ErrNotFound, ErrTooLarge,
                 ErrNotAFile, ErrRead}

\* validateFile has been called in this run
FileLoadTried == "load" \in Range(stages)

\* the supplied filename or the entry it resolves to is one validateFile
\* rejects: absolute, traversal, missing, oversized, not a regular file
FileIsRejectable ==
  \/ IsAbsolute(filename)
  \/ IncludesDotDot(filename)
  \/ ~fileEntry.exists
  \/ fileEntry.size > MAX_FILE_SIZE
  \/ fileEntry.kind # "file"

\* C1: when a filename is supplied and validateFile fails for it, the run
\* reports failure through setFailed with the loader's error text and no
\* later stage happens: no assistant client, no git command, no pull
\* request, no output.
C1_LoadFailureEndsRun ==
  (FileLoadTried /\ FileIsRejectable) =>
     /\ pc = "done"
     /\ Len(failedMsgs) = 1
     /\ failedMsgs[1].prefix = "Failed to load instructions file"
     /\ failedMsgs[1].detail \in LoaderErrors
     /\ (IsLength(filename, 1, MAX_NAME_LENGTH) /\ ~IsAbsolute(filename)
           /\ ~IncludesDotDot(filename) /\ ~fileEntry.exists)
          => failedMsgs[1].detail = ErrNotFound
     /\ stages = <<"input", "load">>
     /\ client = "none" /\ session = "none"
     /\ calls = <<>> /\ sent = <<>>
     /\ commits = <<>> /\ pushes = <<>>
     /\ prNumber = <<>> /\ outputs = <<>>

C1_Witness ==
  /\ FileLoadTried
  /\ ~fileEntry.exists
  /\ pc = "done"
  /\ failedMsgs = <<Msg("Failed to load instructions file", ErrNotFound)>>

\* the stage name of the assistant invocation of the current round
CurrentGen == IF round = 1 THEN "gen1" ELSE "gen2"

\* C2: runCopilot called with instructions the filter rejects raises a
\* 'Security:' error before any assistant client is obtained, constructed or
\* started; in run() that error ends the run with a failure, not a warning;
\* every prompt that was sent to the assistant has passed the filter.
C2_RejectedInstructionsNeverReachAssistant ==
  /\ (CurrentGen \in Range(stages) /\ ~DetectPromptInjection(instructions).isValid) =>
        /\ pc = "done"
        /\ raised = <<[fn |-> "runCopilot",
                       err |-> SecurityError(DetectPromptInjection(instructions).reason)]>>
        /\ raised[1].err \in SecurityErrors
        /\ OpsOf(round, AssistantOps) = <<>>
        /\ failedMsgs = <<Msg("Action failed", raised[1].err)>>
        /\ warnings = <<>>
        /\ client = "none" /\ session = "none"
  /\ \A i \in DOMAIN sent :
        /\ sent[i].prompt.len > 0
        /\ sent[i].prompt.pat = 0
        /\ sent[i].prompt.susp * 10 <= sent[i].prompt.len

C2_Witness ==
  /\ "gen1" \in Range(stages)
  /\ instructions.id = "file" /\ instructions.pat # 0
  /\ pc = "done"
  /\ Len(raised) = 1 /\ raised[1].err \in SecurityErrors

\* C3: validateFilename fails with the absolute-path or the traversal error
\* for every filename of valid length that contains '..' or starts with the
\* path separator, whatever the sanitizer would make of the name and
\* whatever the file system holds.
C3_RawTraversalAndAbsoluteRejected ==
  (FileLoadTried /\ IsLength(filename, 1, MAX_NAME_LENGTH)
     /\ (IncludesDotDot(filename) \/ CharAt(filename, 1) = "/")) =>
        /\ Len(failedMsgs) = 1
        /\ failedMsgs[1].detail \in {ErrAbsolute, ErrTraversal}
        /\ CharAt(filename, 1) = "/" => failedMsgs[1].detail = ErrAbsolute
        /\ instructionFilePath = <<>>

\* a name whose sanitized form is neither absolute nor a traversal
C3_Witness ==
  /\ FileLoadTried
  /\ IsLength(filename, 1, MAX_NAME_LENGTH)
  /\ CharAt(filename, 1) = "/"
  /\ ~IsAbsolute(SanitizeFilename(filename))
  /\ ~IncludesDotDot(SanitizeFilename(filename))
  /\ fileEntry.exists
  /\ failedMsgs = <<Msg("Failed to load instructions file", ErrAbsolute)>>

\* nothing raised in the run so far
NothingRaised ==
  /\ \A i \in DOMAIN calls : calls[i].res # "raise"
  /\ raised = <<>>
  /\ failedMsgs = <<>>

FullStages(withFile) ==
  (IF withFile THEN <<"input", "load">> ELSE <<"input">>) \o
  <<"gen1", "branch", "commit1", "gen2", "commit2", "openpr", "assign", "output">>

\* C4: in a run where no stage raises, the stages happen exactly once each
\* and in the order input/file load, first assistant invocation, branch
\* creation, first commit-and-push, review invocation, second
\* commit-and-push, pull-request creation, assignment, output emission; the
\* first assistant invocation precedes the creation of the branch.
C4_StagesOnceInOrder ==
  /\ NothingRaised => IsPrefix(stages, FullStages(NameLength(filename) # 0))
  /\ (pc = "done" /\ NothingRaised) =>
        /\ stages = FullStages(NameLength(filename) # 0)
        /\ Len(CallsOf(1, "session.sendAndWait")) = 1
        /\ Len(CallsOf(2, "session.sendAndWait")) = 1
        /\ Len(CallsOf(1, "git checkout -b")) = 1
        /\ Len(CallsOf(2, "git checkout -b")) = 0
        /\ Len(CallsOf(2, "pulls.create")) = 1
        /\ Len(CallsOf(2, "issues.addAssignees")) = 1
        /\ Len(outputs) = 2
  /\ \A i \in DOMAIN calls :
        calls[i].op = "git checkout -b" =>
           \E j \in 1..(i - 1) : calls[j].op = "session.sendAndWait" /\ calls[j].round = 1

C4_Witness ==
  /\ pc = "done"
  /\ NothingRaised
  /\ NameLength(filename) # 0
  /\ Len(outputs) = 2

\* the assistant calls inside the try block of runCopilot
TryOps == {"client.start", "client.createSession", "session.on", "session.sendAndWait",
           "session.destroy", "client.stop"}

\* the assistant calls before the try block
AcquireOps == {"getCopilotClient", "new CopilotClient"}

\* some call among opset raised
SomeRaised(opset) == \E i \in DOMAIN calls : calls[i].op \in opset /\ calls[i].res = "raise"

\* the call among opset that raised (a run survives at most one)
TheRaised(opset) ==
  calls[CHOOSE i \in DOMAIN calls : calls[i].op \in opset /\ calls[i].res = "raise"]

CopilotWarnings == SelectSeq(warnings, LAMBDA w : w.prefix = "Copilot SDK execution failed")

\* C5: a failure of the assistant execution (start, session creation,
\* send-and-wait, destroy, stop) is recoverable: the run continues to the
\* next stages up to the pull request instead of being aborted.
C5_AssistantFailureIsRecoverable ==
  (pc = "done" /\ SomeRaised(TryOps \ {"session.on"})) =>
     /\ failedMsgs = <<>>
     /\ "openpr" \in Range(stages)

\* what C6 says of a failed call c once the run has ended
HandledByCatch(c) ==
  /\ L("error", "Copilot SDK execution failed") \in Range(log)
  /\ CopilotWarnings = <<Msg("Copilot SDK execution failed", ErrOf(c.op))>>
  /\ Len(CallsOf(c.round, "client.forceStop")) = 1
  /\ raised = <<[fn |-> "runCopilot", err |-> ErrOf(c.op)]>>
  /\ raised[1].err # ErrForceStop

\* C6 as stated: every failure after the filter, acquiring and constructing
\* the client included, is logged, warned about once, followed by one
\* forceStop attempt, and the original error is raised.
C6_EveryLateFailureHandled ==
  (pc = "done" /\ SomeRaised(TryOps \cup AcquireOps)) =>
     HandledByCatch(TheRaised(TryOps \cup AcquireOps))

\* C6 amended: every failure inside the try block (start, createSession,
\* listener registration, sendAndWait, destroy, stop) is logged, produces
\* one warning and one forceStop attempt, and then the original error is
\* raised, also when forceStop fails; a failure of acquiring or constructing
\* the client is raised as it is, without error log entry, warning or
\* forceStop.
C6_TryBlockFailureHandled ==
  /\ (pc = "done" /\ SomeRaised(TryOps)) => HandledByCatch(TheRaised(TryOps))
  /\ (pc = "done" /\ SomeRaised(AcquireOps)) =>
        /\ raised = <<[fn |-> "runCopilot", err |-> ErrOf(TheRaised(AcquireOps).op)]>>
        /\ CopilotWarnings = <<>>
        /\ L("error", "Copilot SDK execution failed") \notin Range(log)
        /\ \A i \in DOMAIN calls : calls[i].op # "client.forceStop"

C6_Witness ==
  /\ pc = "done"
  /\ SomeRaised({"session.sendAndWait"})
  /\ SomeRaised({"client.forceStop"})
  /\ raised = <<[fn |-> "runCopilot", err |-> ErrOf("session.sendAndWait")]>>

\* commitAndPush of round r has returned
CommitDone(r) ==
  \/ r = 1 /\ round = 2
  \/ r = 2 /\ pc \in {"createPullRequest", "pullsCreate", "assignPR", "addAssignees"}
  \/ r = 2 /\ pc = "done" /\ "openpr" \in Range(stages)

CommitOps == {"git config user.name", "git config user.email", "git add",
              "git diff-index", "git commit", "git push"}

CommitSequence == <<"git config user.name", "git config user.email", "git add",
                    "git diff-index", "git commit", "git push">>

\* the diff check of round r returned this exit status
DiffReturned(r, res) ==
  Len(CallsOf(r, "git diff-index")) = 1 /\ CallsOf(r, "git diff-index")[1].res = res

\* C7 as stated: commit and then push are invoked if and only if the diff
\* check returned a nonzero exit code; with exit code 0 neither is invoked;
\* the two configurations, the staging and the diff check come before.
C7_CommitAndPushIffDirty ==
  \A r \in {1, 2} :
     /\ (CommitDone(r) /\ DiffReturned(r, "nonzero")) => OpsOf(r, CommitOps) = CommitSequence
     /\ (CommitDone(r) /\ DiffReturned(r, "ok")) =>
           OpsOf(r, CommitOps) = SubSeq(CommitSequence, 1, 4)

\* C7 amended: git commit is invoked if and only if the diff check returned
\* a nonzero exit code, and git push is invoked after it if and only if that
\* commit also returned normally; with exit code 0 neither is invoked; the
\* two identity configurations, the staging and the diff check were invoked
\* before, in that order.
C7_CommitIffDirtyPushIffCommitted ==
  \A r \in {1, 2} :
     /\ IsPrefix(OpsOf(r, CommitOps), CommitSequence)
     /\ CommitDone(r) =>
          /\ Len(CallsOf(r, "git commit")) = 1 <=> DiffReturned(r, "nonzero")
          /\ Len(CallsOf(r, "git push")) = 1 <=>
               (DiffReturned(r, "nonzero") /\ CallsOf(r, "git commit")[1].res = "ok")
          /\ DiffReturned(r, "ok") => OpsOf(r, CommitOps) = SubSeq(CommitSequence, 1, 4)

C7_Witness ==
  /\ CommitDone(1)
  /\ DiffReturned(1, "nonzero")
  /\ OpsOf(1, CommitOps) = CommitSequence
  /\ pushes = <<[branch |-> NewBranch, round |-> 1]>>

CommitWarnings == SelectSeq(warnings, LAMBDA w : w.prefix = "Commit/push failed")

\* the rounds whose commitAndPush saw a git command raise
FailedCommitRounds ==
  {r \in {1, 2} : \E i \in DOMAIN calls :
      calls[i].round = r /\ calls[i].op \in CommitOps /\ calls[i].res = "raise"}

\* C8: commitAndPush never raises: a failing git command of its sequence
\* stops the remaining commands of that call, is logged and surfaced as one
\* warning, and the run continues with the next stage; push is never invoked
\* after a failed commit.
C8_CommitAndPushNeverRaises ==
  /\ \A i \in DOMAIN raised : raised[i].fn # "commitAndPush"
  /\ \A i \in DOMAIN calls :
        (calls[i].op \in CommitOps /\ calls[i].res = "raise") =>
           /\ \A j \in (i + 1)..Len(calls) :
                 ~(calls[j].round = calls[i].round /\ calls[j].op \in CommitOps)
           /\ CommitDone(calls[i].round)
           /\ L("error", "Commit/push failed") \in Range(log)
           /\ (calls[i].round = 1) => "gen2" \in Range(stages) \/ pc = "runCopilot"
           /\ (calls[i].round = 2) => "openpr" \in Range(stages) \/ pc = "createPullRequest"
  /\ Len(CommitWarnings) = Cardinality(FailedCommitRounds)
  /\ \A i \in DOMAIN failedMsgs : failedMsgs[i].detail # ErrOf("git")

C8_Witness ==
  /\ \E i \in DOMAIN calls : calls[i].op = "git commit" /\ calls[i].res = "raise"
                             /\ calls[i].round = 1
  /\ "gen2" \in Range(stages)
  /\ Len(CommitWarnings) = 1

\* C9: createBranch first tries to create and switch to the branch; exactly
\* when that attempt raises it invokes one fallback checkout, whose exit
\* status is ignored; when the attempt succeeds there is no fallback.
C9_FallbackExactlyOnFailure ==
  LET created == CallsOf(1, "git checkout -b")
      fallback == CallsOf(1, "git checkout")
  IN /\ Len(created) <= 1 /\ Len(fallback) <= 1
     /\ CallsOf(2, "git checkout -b") = <<>> /\ CallsOf(2, "git checkout") = <<>>
     /\ pc # "fallbackCheckout" =>
          (Len(fallback) = 1 <=> (Len(created) = 1 /\ created[1].res = "raise"))
     /\ \A i \in DOMAIN calls :
          calls[i].op = "git checkout" =>
             /\ i > 1 /\ calls[i - 1].op = "git checkout -b" /\ calls[i - 1].res = "raise"
             /\ calls[i].res \in {"ok", "nonzero"} =>
                  /\ \A k \in DOMAIN raised : raised[k].fn # "createBranch"
                  /\ pc = "commitAndPush" \/ "commit1" \in Range(stages)

C9_Witness ==
  /\ Len(CallsOf(1, "git checkout -b")) = 1
  /\ CallsOf(1, "git checkout -b")[1].res = "raise"
  /\ Len(CallsOf(1, "git checkout")) = 1
  /\ CallsOf(1, "git checkout")[1].res = "nonzero"
  /\ "commit1" \in Range(stages)

\* createPullRequest has returned
PullRequestReturned ==
  \/ pc \in {"assignPR", "addAssignees"}
  \/ pc = "done" /\ "openpr" \in Range(stages)

\* C10: createPullRequest returns the number of the API response when the
\* API call succeeds, and returns null without raising when obtaining the
\* API client or the create call fails, reporting it through core.error.
C10_PullRequestNumberOrNull ==
  /\ \A i \in DOMAIN raised : raised[i].fn # "createPullRequest"
  /\ PullRequestReturned =>
       /\ SomeRaised({"createPullRequest:getOctokit", "pulls.create"}) =>
            /\ prNumber = <<>>
            /\ Len(errors) = 1 /\ errors[1].prefix = "Failed to create PR"
            /\ failedMsgs = <<>>
       /\ (\E i \in DOMAIN calls : calls[i].op = "pulls.create" /\ calls[i].res = "ok") =>
            /\ prResponse # <<>>
            /\ prNumber = prResponse
            /\ errors = <<>>

C10_Witness ==
  /\ PullRequestReturned
  /\ SomeRaised({"pulls.create"})
  /\ prNumber = <<>>
  /\ Len(errors) = 1

\* the setOutput calls of a given name
OutputsNamed(n) == SelectSeq(outputs, LAMBDA o : o.name = n)

\* the calls assignPR makes
AssignOps == {"assignPR:getOctokit", "issues.addAssignees"}

\* C11: when createPullRequest returns null the run skips the assignment,
\* emits no output at all and ends without reporting failure; pr_number is
\* emitted only in runs where the create call succeeded.
C11_NullPullRequestSkipsAssignAndOutputs ==
  /\ (PullRequestReturned /\ prNumber = <<>>) =>
       /\ pc = "done"
       /\ OpsOf(1, AssignOps) = <<>> /\ OpsOf(2, AssignOps) = <<>>
       /\ "assign" \notin Range(stages) /\ "output" \notin Range(stages)
       /\ outputs = <<>>
       /\ failedMsgs = <<>>
  /\ OutputsNamed("pr_number") # <<>> =>
       /\ \E i \in DOMAIN calls : calls[i].op = "pulls.create" /\ calls[i].res = "ok"
       /\ prNumber # <<>>
       /\ OutputsNamed("pr_number")[1].num = prNumber[1]

C11_Witness ==
  /\ pc = "done"
  /\ "openpr" \in Range(stages)
  /\ SomeRaised({"pulls.create"})
  /\ prNumber = <<>>
  /\ outputs = <<>>
  /\ failedMsgs = <<>>

\* the run has ended after createPullRequest returned
RunEndedAfterPullRequest == pc = "done" /\ "openpr" \in Range(stages)

\* C12 as stated: once the run has reached the generated branch the branch
\* output is emitted, whether or not pull-request creation succeeded.
C12_BranchOutputAlwaysEmitted ==
  RunEndedAfterPullRequest => OutputsNamed("branch") # <<>>

\* C12, amended: the branch output is emitted exactly in the runs where
\* pull-request creation succeeded, once, right after pr_number and with
\* the generated branch name; a run whose createPullRequest returned null
\* emits neither output.
C12_BranchOutputIffPullRequest ==
  /\ outputs # <<>> =>
       /\ Len(outputs) = 2
       /\ outputs[1].name = "pr_number" /\ outputs[2].name = "branch"
       /\ outputs[2].str = NewBranch
       /\ "branch" \in Range(stages)
       /\ prNumber # <<>>
  /\ RunEndedAfterPullRequest => (OutputsNamed("branch") # <<>> <=> prNumber # <<>>)

C12_Witness ==
  /\ RunEndedAfterPullRequest
  /\ SomeRaised({"assignPR:getOctokit"})
  /\ Len(OutputsNamed("branch")) = 1
  /\ OutputsNamed("branch")[1].str = NewBranch

\* the warnings of assignPR
AssignWarnings == SelectSeq(warnings, LAMBDA w : w.prefix = "Failed to assign PR")

\* C13: a failure of assignPR (obtaining the API client or addAssignees) is
\* logged as a warning and never raises; the run then still emits pr_number
\* and branch and does not report failure.
C13_AssignFailureIsWarningOnly ==
  /\ \A i \in DOMAIN raised : raised[i].fn # "assignPR"
  /\ SomeRaised(AssignOps) =>
       /\ Len(AssignWarnings) = 1
       /\ L("error", "Failed to assign PR") \in Range(log)
       /\ pc = "done"
       /\ Len(OutputsNamed("pr_number")) = 1
       /\ OutputsNamed("pr_number")[1].num = prNumber[1]
       /\ Len(OutputsNamed("branch")) = 1
       /\ failedMsgs = <<>>
  /\ ~SomeRaised(AssignOps) => AssignWarnings = <<>>

C13_Witness ==
  /\ SomeRaised({"issues.addAssignees"})
  /\ Len(AssignWarnings) = 1
  /\ Len(outputs) = 2
  /\ failedMsgs = <<>>

\* the entry validateFile accepts
IsValidatedFile(entry) == entry.exists /\ IsFile(entry) /\ entry.size <= MAX_FILE_SIZE

\* validateFile was called with a name that validateFilename accepts
FileChecked == FileLoadTried /\ ValidateFilename(filename).ok

\* validateFile returned a path to run()
ValidateFileReturned == L("info", "File validated successfully") \in Range(log)

\* the run ended with the given error of the loader
LoadFailedWith(err) ==
  /\ pc = "done"
  /\ instructionFilePath = <<>>
  /\ failedMsgs = <<Msg("Failed to load instructions file", err)>>

\* the content of the instruction file has been read or is about to be
FileContentRead ==
  \/ pc = "readFile"
  \/ L("info", "Loaded instructions from file") \in Range(log)
  \/ instructions.id = "file"

\* C14 as stated: a missing path fails with the not-found error, an
\* oversized one with the size error, a non-regular one with the type error.
C14_EachRejectionHasItsOwnError ==
  FileChecked =>
    /\ ~fileEntry.exists => LoadFailedWith(ErrNotFound)
    /\ (fileEntry.exists /\ fileEntry.size > MAX_FILE_SIZE) => LoadFailedWith(ErrTooLarge)
    /\ (fileEntry.exists /\ ~IsFile(fileEntry)) => LoadFailedWith(ErrNotAFile)

\* C14, amended: validateFile returns a path only for an entry that exists,
\* is a regular file and has at most MAX_FILE_SIZE bytes (exactly
\* MAX_FILE_SIZE is accepted, one byte more is rejected); the checks are
\* made in the order existence, size, type: a missing path fails with the
\* not-found error, an existing entry above the limit with the size error
\* whatever its type, an existing entry within the limit that is not a
\* regular file with the type error; run() reads the content only after
\* validateFile returned the path.
C14_ValidateFileChecksInOrder ==
  /\ FileChecked =>
       /\ ValidateFileReturned <=> IsValidatedFile(fileEntry)
       /\ (IsValidatedFile(fileEntry) /\ round = 1) =>
            instructionFilePath = <<ValidateFilename(filename).value>>
       /\ ~fileEntry.exists => LoadFailedWith(ErrNotFound)
       /\ (fileEntry.exists /\ fileEntry.size > MAX_FILE_SIZE) => LoadFailedWith(ErrTooLarge)
       /\ (fileEntry.exists /\ fileEntry.size <= MAX_FILE_SIZE /\ ~IsFile(fileEntry)) =>
            LoadFailedWith(ErrNotAFile)
  /\ FileContentRead =>
       /\ FileChecked
       /\ IsValidatedFile(fileEntry)
       /\ ValidateFileReturned

C14_Witness ==
  /\ FileChecked
  /\ IsFile(fileEntry) /\ fileEntry.size = MAX_FILE_SIZE
  /\ ValidateFileReturned
  /\ L("info", "Loaded instructions from file") \in Range(log)

\* the strings of a sequence of messages
MsgStrings(m) == {m[i].prefix : i \in DOMAIN m} \cup {m[i].detail : i \in DOMAIN m}

\* every string a run has written where it can be read: log entries,
\* warnings, errors, failure messages, output values, the texts sent as
\* prompts, the branches committed to and pushed
ObservableStrings ==
  {log[i].msg : i \in DOMAIN log}
    \cup MsgStrings(warnings) \cup MsgStrings(errors) \cup MsgStrings(failedMsgs)
    \cup {outputs[i].str : i \in DOMAIN outputs}
    \cup {sent[i].prompt.id : i \in DOMAIN sent}
    \cup {commits[i].branch : i \in DOMAIN commits}
    \cup {pushes[i].branch : i \in DOMAIN pushes}

\* the calls that receive the token: github.getOctokit(token)
CredentialOps == {"createPullRequest:getOctokit", "assignPR:getOctokit"}

AssistantSetupOps == {"new CopilotClient", "client.createSession"}

\* C19 as stated: every assistant client or session that a run starts is
\* configured with the run's token.
C19_AssistantConfiguredWithToken ==
  \A i \in DOMAIN calls :
    calls[i].op \in AssistantSetupOps => calls[i].cred = <<token>>

\* C20: setFailed is invoked at most once per run; every error that leaves
\* a function towards run() is mapped by the catch block of run() to one
\* 'Action failed' failure carrying that error; after a failure has been
\* reported the run is over and no further step of it executes.
C20_SingleTerminalFailure ==
  /\ Len(failedMsgs) <= 1
  /\ Len(raised) <= 1
  /\ raised # <<>> => failedMsgs = <<Msg("Action failed", raised[1].err)>>
  /\ (failedMsgs # <<>> /\ failedMsgs[1].prefix = "Action failed") => raised # <<>>
  /\ failedMsgs # <<>> =>
       /\ pc = "done"
       /\ failedMsgs[1].prefix \in {"Action failed", "Failed to load instructions file"}
       /\ outputs = <<>>
  /\ pc = "done" => ~ENABLED Next

C20_Witness ==
  /\ pc = "done"
  /\ raised # <<>> /\ raised[1].fn = "createBranch"
  /\ failedMsgs = <<Msg("Action failed", raised[1].err)>>
  /\ "commit1" \notin Range(stages)

\* the direct call of fn has returned
UnitReturned(fn) ==
  /\ returned # <<>>
  /\ returned[1].fn = fn
  /\ returned[1].res # <<>>

\* the name holds a character the sanitizer replaces: a path separator, or
\* a dot at the end of the name
HoldsDisallowedCharacter(name) ==
  \/ \E i \in DOMAIN name.chars : name.chars[i] = "/"
  \/ name.pad = 0 /\ name.chars # <<>> /\ name.chars[Len(name.chars)] = "."

\* C15: validateFilename fails exactly when the name is empty, or longer
\* than 255 characters, or absolute, or contains '..'; a name of length 0 or
\* above 255 fails with the length error whatever else it contains; every
\* other name comes back sanitized, unchanged when it holds no disallowed
\* character, and a difference to the input is logged, never a failure.
C15_ValidateFilenameContract ==
  UnitReturned("validateFilename") =>
    LET name == returned[1].arg
        r == returned[1].res[1]
        badLength == NameLength(name) = 0 \/ NameLength(name) > MAX_NAME_LENGTH
    IN /\ ~r.ok <=> (badLength \/ IsAbsolute(name) \/ IncludesDotDot(name))
       /\ badLength => r.err = ErrLength
       /\ (~badLength /\ IsAbsolute(name)) => r.err = ErrAbsolute
       /\ (~badLength /\ ~IsAbsolute(name) /\ IncludesDotDot(name)) => r.err = ErrTraversal
       /\ r.ok =>
            /\ r.value = SanitizeFilename(name)
            /\ NameLength(r.value) = NameLength(name)
            /\ ~HoldsDisallowedCharacter(r.value)
            /\ ~HoldsDisallowedCharacter(name) => r.value = name
            /\ r.sanitizedLogged <=> r.value # name

C15_Witness ==
  /\ UnitReturned("validateFilename")
  /\ NameLength(returned[1].arg) = MAX_NAME_LENGTH
  /\ returned[1].arg.chars = <<"a", ".">>
  /\ returned[1].res[1].ok
  /\ returned[1].res[1].value = returned[1].arg
  /\ ~returned[1].res[1].sanitizedLogged

\* C16: detectPromptInjection returns isValid true exactly when the
\* argument is a non-empty string that no injection pattern matches (in
\* either case of letters, at any position) and whose count of the
\* characters < > { } [ ] is at most 10% of its length; exactly 10% is
\* valid, anything above is invalid.
C16_DetectPromptInjectionContract ==
  UnitReturned("detectPromptInjection") =>
    LET arg == returned[1].arg
        r == returned[1].res[1]
        length == TextLength(arg.toks)
        counted == SuspiciousCharCount(arg.toks)
        clean == \A k \in DOMAIN PatternPhrases, i \in DOMAIN arg.toks :
                   Lower(arg.toks[i]) # PatternPhrases[k]
    IN /\ r.isValid <=> (arg.isString /\ length > 0 /\ clean /\ 10 * counted <= length)
       /\ (arg.isString /\ length > 0 /\ clean /\ 10 * counted > length) =>
            r.reason = ReasonDensity
       /\ (arg.isString /\ length > 0 /\ ~clean) => r.reason = ReasonPattern
       /\ (~arg.isString \/ length = 0) => r.reason = ReasonEmpty

C16_Witness ==
  /\ UnitReturned("detectPromptInjection")
  /\ returned[1].arg = [isString |-> TRUE, toks |-> <<"<", "xxxxxxxxx">>]
  /\ returned[1].res[1].isValid

\* the runs that have generated their branch name
StartedRuns == {r \in Runs : runNames[r] # <<>>}

\* C17 as stated: no two runs ever get the same branch name.
C17_BranchNamesUnique ==
  \A r1, r2 \in StartedRuns : r1 # r2 => runNames[r1][1].name # runNames[r2][1].name

\* C17, amended: each run generates its branch name once, as
\* 'copilot/delegate-' followed by its ISO-8601 timestamp with ':' and '.'
\* replaced by '-'; the names of two runs differ exactly when their
\* timestamps differ, and the timestamp has a resolution of one millisecond.
C17_BranchNamesDifferIffTimestampsDiffer ==
  /\ \A r \in StartedRuns :
       LET n == runNames[r][1].name
           ts == ToISOString(runNames[r][1].at)
       IN /\ Len(runNames[r]) = 1
          /\ Len(n) = 25 /\ n[1] = "copilot/delegate-"
          /\ \A i \in 1..24 : n[i + 1] = (IF ts[i] \in {":", "."} THEN "-" ELSE ts[i])
          /\ \A i \in 2..25 : n[i] \notin {":", "."}
          /\ runNames[r][1].at <= now
  /\ \A r1, r2 \in StartedRuns :
       runNames[r1][1].name = runNames[r2][1].name <=> runNames[r1][1].at = runNames[r2][1].at

C17_Witness ==
  /\ StartedRuns = Runs
  /\ runNames[1][1].at = 999
  /\ runNames[2][1].at = 1000
  /\ runNames[1][1].name # runNames[2][1].name
  /\ SubSeq(runNames[2][1].name, 19, 25) = <<"0", "1", "-", "0", "0", "0", "Z">>

\* the prompts sent that came from the instruction file
FilePrompts == SelectSeq(sent, LAMBDA m : m.prompt.id = "file")

\* C21 as stated: no prompt sent to the assistant carries more than the
\* first MAX_INSTRUCTION_LENGTH characters of the instruction file.
C21_FilePromptsTruncated ==
  \A i \in DOMAIN FilePrompts : FilePrompts[i].prompt.len <= MAX_INSTRUCTION_LENGTH

\* C22 as stated: the instruction file whose content a run reads is a
\* regular file that is not a symbolic link and lies inside the working
\* directory.
C22_ReadFileIsRegularAndInside ==
  L("info", "Loaded instructions from file") \in Range(log) =>
    /\ IsFile(fileEntry)
    /\ ~fileEntry.symlink
    /\ ~fileEntry.outside

\* createPullRequest has been called
PullRequestAttempted == "openpr" \in Range(stages)

\* C25 as stated: the pull-request creation call is never made in a run in
\* which neither commit-and-push stage pushed the branch.
C25_PullRequestOnlyAfterPush ==
  PullRequestAttempted => pushes # <<>>

\* C25, amended: the pull-request creation call is made after both
\* commit-and-push stages have returned, and in every run that gets through
\* the second of them, whether or not either stage pushed the branch.
C25_PullRequestAfterBothCommitStages ==
  /\ PullRequestAttempted =>
       /\ "commit1" \in Range(stages) /\ "commit2" \in Range(stages)
       /\ CommitDone(1) /\ CommitDone(2)
       /\ Len(pushes) <= 2
       /\ \A i \in DOMAIN pushes : pushes[i].branch = NewBranch
       /\ \A i \in DOMAIN raised : raised[i].fn \notin {"runCopilot", "createBranch"}
  /\ ("commit2" \in Range(stages) /\ pc = "done") => PullRequestAttempted

C25_Witness ==
  /\ PullRequestAttempted
  /\ pushes = <<>>
  /\ DiffReturned(1, "ok") /\ DiffReturned(2, "ok")
  /\ \E i \in DOMAIN calls : calls[i].op = "pulls.create"

\* C26 as stated: a run that has pushed the generated branch goes on to
\* attempt pull-request creation; no later failure ends it before.
C26_PushLeadsToPullRequest ==
  (pc = "done" /\ pushes # <<>>) => PullRequestAttempted

\* runCopilot of the current round raised to run() after client.start() had
\* succeeded
RaisedAfterClientStart ==
  /\ \E i \in DOMAIN raised : raised[i].fn = "runCopilot"
  /\ Len(CallsOf(round, "client.start")) = 1
  /\ CallsOf(round, "client.start")[1].res = "ok"

\* session and client are in a terminal stopped state
AssistantStopped == session = "destroyed" \/ client \in {"stopped", "forceStopped"}

\* C23 as stated: whenever runCopilot raises after a client was started,
\* session and client have reached a terminal stopped state before the
\* error reaches the caller, and session destroy and client stop have run
\* even when sendAndWait raised.
C23_StoppedBeforeErrorPropagates ==
  RaisedAfterClientStart =>
    /\ AssistantStopped
    /\ (SomeRaised({"session.sendAndWait"}) =>
          /\ CallsOf(round, "session.destroy") # <<>>
          /\ CallsOf(round, "client.stop") # <<>>)

\* C23, amended: whenever runCopilot raises after a client was started,
\* exactly one forced stop of the client has been attempted before the
\* error reaches the caller; the client is stopped if that attempt
\* succeeded and is left running if it failed; session destroy and client
\* stop are steps of the successful path and are not invoked after a step
\* before them raised.
C23_ForceStopAttemptedBeforeErrorPropagates ==
  RaisedAfterClientStart =>
    LET force == CallsOf(round, "client.forceStop")
        failedOp == TheRaised(TryOps \ {"client.forceStop"}).op
    IN /\ Len(force) = 1
       /\ force[1].res = "ok" => client = "forceStopped"
       /\ force[1].res = "raise" => client = "started"
       /\ client # "stopped"
       /\ failedOp \in {"client.createSession", "session.on", "session.sendAndWait"} =>
            /\ CallsOf(round, "session.destroy") = <<>>
            /\ CallsOf(round, "client.stop") = <<>>
            /\ session # "destroyed"
       /\ failedOp = "session.destroy" => CallsOf(round, "client.stop") = <<>>

C23_Witness ==
  /\ RaisedAfterClientStart
  /\ CallsOf(round, "session.sendAndWait") # <<>>
  /\ CallsOf(round, "session.sendAndWait")[1].res = "raise"
  /\ CallsOf(round, "client.forceStop")[1].res = "raise"
  /\ client = "started"
  /\ session = "listening"

\* the calls of a successful runCopilot, in order
SuccessfulCopilotCalls ==
  <<"getCopilotClient", "new CopilotClient", "client.start", "client.createSession",
    "session.on", "session.sendAndWait", "session.destroy", "client.stop">>

\* runCopilot of round r has returned to run()
CopilotReturned(r) ==
  \/ r = 1 /\ (pc = "createBranch" \/ "branch" \in Range(stages))
  \/ r = 2 /\ round = 2 /\ (pc = "commitAndPush" \/ "commit2" \in Range(stages))

\* the messages sent in round r
SentIn(r) == SelectSeq(sent, LAMBDA m : m.round = r)

\* C24: on a successful runCopilot call start, createSession, listener
\* registration, sendAndWait (timeout 300000 ms), session destroy and
\* client stop are invoked exactly once each and in that order; forceStop
\* is never invoked.
C24_SuccessfulCallSequence ==
  \A r \in {1, 2} :
    CopilotReturned(r) =>
      /\ OpsOf(r, AssistantOps) = SuccessfulCopilotCalls
      /\ \A i \in DOMAIN calls :
           (calls[i].round = r /\ calls[i].op \in AssistantOps) => calls[i].res = "ok"
      /\ Len(SentIn(r)) = 1
      /\ SentIn(r)[1].timeout = SEND_TIMEOUT_MS
      /\ \A i \in DOMAIN raised : raised[i].fn # "runCopilot" \/ round # r

C24_Witness ==
  /\ CopilotReturned(1) /\ CopilotReturned(2)
  /\ OpsOf(2, AssistantOps) = SuccessfulCopilotCalls
  /\ Len(sent) = 2
  /\ client = "stopped" /\ session = "destroyed"

\* a filename input was supplied
FilenameSupplied == NameLength(filename) # 0

FallbackReturned(res) ==
  Len(CallsOf(1, "git checkout")) = 1 /\ CallsOf(1, "git checkout")[1].res = res

\* C28: createBranch raises only when the fallback checkout invocation
\* itself raises; when the creation attempt raises and the fallback exits
\* with a nonzero status createBranch returns normally, the run goes on to
\* the first commit-and-push stage with the generated branch not checked
\* out, and a commit of that stage lands on the branch checked out before.
C28_NonzeroFallbackIsIgnored ==
  /\ \A i \in DOMAIN raised :
       raised[i].fn = "createBranch" =>
         /\ FallbackReturned("raise")
         /\ SomeRaised({"git checkout -b"})
         /\ "commit1" \notin Range(stages)
  /\ FallbackReturned("raise") => \E i \in DOMAIN raised : raised[i].fn = "createBranch"
  /\ FallbackReturned("nonzero") =>
       /\ SomeRaised({"git checkout -b"})
       /\ \A i \in DOMAIN raised : raised[i].fn # "createBranch"
       /\ headBranch = OriginalBranch
       /\ pc = "commitAndPush" \/ "commit1" \in Range(stages)
       /\ \A i \in DOMAIN commits : commits[i].branch = OriginalBranch
  /\ FallbackReturned("ok") => headBranch = NewBranch

C28_Witness ==
  /\ FallbackReturned("nonzero")
  /\ commits # <<>>
  /\ commits[1].round = 1
  /\ commits[1].branch = OriginalBranch

\* the instruction file was loaded and is empty
EmptyFileLoaded ==
  /\ FilenameSupplied
  /\ L("info", "Loaded instructions from file") \in Range(log)
  /\ fileEntry.content.len = 0

\* C29: when the instruction file passes validateFile but is empty, the run
\* keeps the empty instructions instead of the default prompt, the filter
\* rejects them as not a non-empty string, and the run ends with a reported
\* failure before any assistant client is started and before any git
\* command or pull-request call.
C29_EmptyFileFailsRun ==
  EmptyFileLoaded =>
    /\ fileEntry.size = 0 /\ IsValidatedFile(fileEntry)
    /\ instructions = fileEntry.content
    /\ instructions # DefaultInstructions
    /\ calls = <<>> /\ sent = <<>>
    /\ client = "none" /\ session = "none"
    /\ commits = <<>> /\ pushes = <<>> /\ outputs = <<>>
    /\ pc \in {"runCopilot", "done"}
    /\ pc = "done" =>
         /\ stages = <<"input", "load", "gen1">>
         /\ L("error", "Prompt injection detected") \in Range(log)
         /\ failedMsgs = <<Msg("Action failed", SecurityError(ReasonEmpty))>>

C29_Witness ==
  /\ EmptyFileLoaded
  /\ pc = "done"
  /\ failedMsgs = <<Msg("Action failed", SecurityError(ReasonEmpty))>>
  /\ calls = <<>>

\* the three ways a run can end
FailureReported == failedMsgs # <<>>

OutputsEmitted ==
  /\ Len(outputs) = 2
  /\ outputs[1].name = "pr_number" /\ outputs[2].name = "branch"

EndedWithoutOutput ==
  /\ outputs = <<>>
  /\ PullRequestAttempted
  /\ prNumber = <<>>

\* the run is over, in exactly one of the three end states
Terminated ==
  /\ pc = "done"
  /\ ~ENABLED Next
  /\ \/ FailureReported /\ ~OutputsEmitted /\ ~EndedWithoutOutput
     \/ ~FailureReported /\ OutputsEmitted /\ ~EndedWithoutOutput
     \/ ~FailureReported /\ ~OutputsEmitted /\ EndedWithoutOutput

\* C30: provided every external call eventually returns or raises, every
\* run eventually terminates in exactly one of three end states: failure
\* reported, both outputs emitted, or ended without output after a null
\* pull-request result; once there it stays there.
C30_RunTerminates == <>[]Terminated

C30_Witness ==
  /\ Terminated
  /\ EndedWithoutOutput
  /\ Len(sent) = 2

====
